---- MODULE Spec2Model ----
(***************************************************************************)
(* Bar-by-bar backtesting engines of VectorAlgoAI.                         *)
(*                                                                         *)
(*   Spec      : run_backtest_v2 of src/core/backtester_adapter.py (V4)    *)
(*   SpecFixed : run_backtest_v2 of src/vectoralgoai-mvp-fixed/            *)
(*               VectorAlgoAI/core/backtester_adapter.py                   *)
(*   SpecMetrics : max_drawdown, profit_factor and compute_metrics of      *)
(*               src/core/metrics.py, each called on its own               *)
(*   SpecRule  : eval_condition of src/core/rule_engine.py                 *)
(*   SpecRuleSet : check_entry_long, check_entry_short, check_exit_long    *)
(*               and check_exit_short of src/core/rule_engine.py           *)
(*   SpecCheck : _check_conditions of src/core/backtester_adapter.py       *)
(*   SpecMC    : the Monte Carlo step of src/core/backtester_adapter.py    *)
(*   SpecParse : parse_strategy_yaml of src/vectoralgoai-mvp-fixed/        *)
(*               VectorAlgoAI/core/strategy_config.py                      *)
(*   SpecBacktester : _compute_metrics and the rule functions of           *)
(*               src/vectoralgoai-mvp-fixed/core/backtester.py             *)
(*   SpecPro   : run_backtest_pro of src/core/backtester_pro_engine.py     *)
(*   SpecSignals : generate_signals of src/core/signal_engine.py           *)
(*                                                                         *)
(* Python floats are modelled as exact rationals [n, d] in lowest terms    *)
(* with d > 0; the float NaN is the record with d = 0.  Rounding of the    *)
(* binary floating point representation is not modelled.                   *)
(***************************************************************************)
EXTENDS Integers, Sequences, FiniteSets, TLC

VARIABLES
    cfg,                   \* cfg.raw: rule lists and the risk block
    slippage_pct,          \* argument of run_backtest_v2 (V4)
    commission_per_trade,  \* argument of run_backtest_v2 (V4)
    columns,               \* df.columns
    adx_filled,            \* TRUE once df["adx"] = 0 has filled the column
    nbars,                 \* len(df)
    i,                     \* number of rows already drawn by df.iterrows()
    row,                   \* the row of the current iteration, NoRow between iterations
    pc,                    \* position of the run in the function body
    position,              \* Optional[Position]: <<>> is None, <<p>> is p
    trades,                \* the ledger
    capital_start,         \* running capital (V4 reuses the name capital_start)
    equity,                \* the equity list (V4)
    metrics,               \* the metrics dict of the returned result
    arg,                   \* the arguments of a function called on its own
    ret,                   \* what that call returned
    entry_signal,          \* the list entry_signal of generate_signals
    exit_signal,           \* the list exit_signal of generate_signals
    current_pos            \* current_pos of generate_signals

vars == <<cfg, slippage_pct, commission_per_trade, columns, adx_filled, nbars, i, row, pc,
          position, trades, capital_start, equity, metrics, arg, ret,
          entry_signal, exit_signal, current_pos>>

\* the variables of generate_signals
signal_vars == <<entry_signal, exit_signal, current_pos>>

\* their value while another function runs
NoSignals == entry_signal = <<>> /\ exit_signal = <<>> /\ current_pos = 0

\* the largest number of bars of a bar series
MaxBars == 3

----------------------------------------------------------------------------
(* Float arithmetic *)

Abs(x) == IF x < 0 THEN -x ELSE x

Sign(x) == IF x < 0 THEN -1 ELSE IF x > 0 THEN 1 ELSE 0

RECURSIVE GCD(_, _)
GCD(a, b) == IF b = 0 THEN a ELSE GCD(b, a % b)

LCM(a, b) == (a \div GCD(a, b)) * b

\* the three non-finite floats have d = 0
NaN == [n |-> 0, d |-> 0]

Inf == [n |-> 1, d |-> 0]

NegInf == [n |-> -1, d |-> 0]

IsNaN(x) == x.d = 0 /\ x.n = 0

IsFinite(x) == x.d > 0

Norm(n, d) ==
    IF d = 0 THEN [n |-> Sign(n), d |-> 0]
    ELSE LET s == IF d < 0 THEN -1 ELSE 1
             g == GCD(Abs(n), Abs(d))
         IN  [n |-> (s * n) \div g, d |-> (s * d) \div g]

Frac(n, d) == Norm(n, d)

R(n) == [n |-> n, d |-> 1]

Zero == R(0)

One == R(1)

\* sums and products cancel common factors before they multiply, so that
\* the intermediate integers stay as small as the result
Add(a, b) ==
    IF IsNaN(a) \/ IsNaN(b) THEN NaN
    ELSE IF ~IsFinite(a) THEN (IF ~IsFinite(b) /\ b.n # a.n THEN NaN ELSE a)
    ELSE IF ~IsFinite(b) THEN b
    ELSE LET l == LCM(a.d, b.d)
         IN  Norm(a.n * (l \div a.d) + b.n * (l \div b.d), l)

Neg(a) == [n |-> -a.n, d |-> a.d]

Sub(a, b) == Add(a, Neg(b))

Mul(a, b) ==
    IF IsNaN(a) \/ IsNaN(b) THEN NaN
    ELSE IF ~IsFinite(a) \/ ~IsFinite(b) THEN [n |-> Sign(a.n) * Sign(b.n), d |-> 0]
    ELSE LET g1 == GCD(Abs(a.n), b.d)
             g2 == GCD(Abs(b.n), a.d)
         IN  Norm((a.n \div g1) * (b.n \div g2), (a.d \div g2) * (b.d \div g1))

\* a / b for finite a and b, evaluated only where the code has excluded b = 0
Div(a, b) ==
    IF ~IsFinite(a) \/ ~IsFinite(b) \/ b.n = 0 THEN NaN
    ELSE Mul(a, Norm(b.d, b.n))

AbsR(a) == [n |-> Abs(a.n), d |-> a.d]

\* comparisons: every ordered comparison and == is False on NaN, != is True
Lt(a, b) ==
    /\ ~IsNaN(a)
    /\ ~IsNaN(b)
    /\ IF IsFinite(a) /\ IsFinite(b) THEN Sub(a, b).n < 0
       ELSE IF ~IsFinite(a) /\ ~IsFinite(b) THEN a.n < b.n
       ELSE IF ~IsFinite(a) THEN a.n < 0
       ELSE b.n > 0

Eq(a, b) == ~IsNaN(a) /\ ~IsNaN(b) /\ a = b

Le(a, b) == Lt(a, b) \/ Eq(a, b)

Gt(a, b) == Lt(b, a)

Ge(a, b) == Le(b, a)

Ne(a, b) == ~Eq(a, b)

\* Python max(a, b)
MaxR(a, b) == IF Gt(b, a) THEN b ELSE a

RECURSIVE SumPnl(_)
SumPnl(ts) == IF ts = <<>> THEN Zero ELSE Add(SumPnl(SubSeq(ts, 1, Len(ts) - 1)), ts[Len(ts)].pnl)

\* numpy division: x / 0 is nan or an infinity, never an exception
NpDiv(a, b) ==
    IF IsFinite(a) /\ IsFinite(b) /\ b.n = 0 THEN [n |-> Sign(a.n), d |-> 0] ELSE Div(a, b)

RECURSIVE SumWhere(_, _)
SumWhere(ts, sign) ==
    IF ts = <<>> THEN Zero
    ELSE Add(SumWhere(SubSeq(ts, 1, Len(ts) - 1), sign),
             IF Sign(ts[Len(ts)].pnl.n) = sign THEN ts[Len(ts)].pnl ELSE Zero)

----------------------------------------------------------------------------
(* Inputs *)

Col(name) == [kind |-> "col", name |-> name, val |-> Zero]

Lit(v) == [kind |-> "lit", name |-> "", val |-> v]

Cond(l, op, r) == [left |-> l, op |-> op, right |-> r]

CloseAboveEma == <<Cond(Col("close"), ">", Col("ema20"))>>

CloseBelowEma == <<Cond(Col("close"), "<", Col("ema20"))>>

EntryLongSet == {<<>>, CloseAboveEma}

\* a short-entry list that can hold on the bars where CloseAboveEma holds
CloseAboveNine == <<Cond(Col("close"), ">", Lit(R(9)))>>

EntryShortSet == {<<>>, CloseBelowEma, CloseAboveNine}

CapitalVals == {R(16)}

RiskPctVals == {R(50)}

SlippageVals == {Zero, Frac(1, 8)}

CommissionVals == {Zero, R(1)}

CloseVals == {R(8), R(10), R(12)}

AdxVals == {R(20), R(30)}

AtrVals == {Zero, Frac(1, 2)}

EmaVals == {R(9), R(11)}

SpreadVals == {R(1)}

BaseColumns == {"close", "high", "low", "ema20"}

ColumnSets == {BaseColumns \cup {"adx", "atr14"}, BaseColumns \cup {"adx"}, BaseColumns \cup {"atr14"}}

\* the rows a frame with columns cols can hold; a column filled by
\* df["adx"] = 0 holds 0 in every row
Rows(cols, filled) ==
    { [c \in cols \ {"regime"} |->
            CASE c = "close" -> cl
              [] c = "high"  -> Add(cl, sp)
              [] c = "low"   -> cl
              [] c = "ema20" -> em
              [] c = "adx"   -> ax
              [] c = "atr14" -> at ] :
        cl \in CloseVals, sp \in SpreadVals, em \in EmaVals,
        ax \in (IF filled THEN {Zero} ELSE AdxVals), at \in AtrVals }

NoRow == [c \in {} |-> Zero]

\* the value of metrics before a result is built
NoMetrics == [num_trades |-> -1]

\* arg and ret while no function is called on its own
NoArg == [fn |-> ""]

NoRet == [fn |-> ""]

----------------------------------------------------------------------------
(* V4 engine: src/core/backtester_adapter.py *)

\* row.get(name, 0) for a column reference, the literal otherwise
V4_operand(r, x) ==
    IF x.kind = "col"
    THEN (IF x.name \in DOMAIN r THEN r[x.name] ELSE Zero)
    ELSE x.val

\* a condition makes _check_conditions return False
V4_cond_fails(r, c) ==
    LET left  == V4_operand(r, c.left)
        right == V4_operand(r, c.right)
    IN  \/ c.op = ">"  /\ Le(left, right)
        \/ c.op = "<"  /\ Ge(left, right)
        \/ c.op = ">=" /\ Lt(left, right)
        \/ c.op = "<=" /\ Gt(left, right)
        \/ c.op = "==" /\ Ne(left, right)

V4_check_conditions(r, conds) ==
    /\ conds # <<>>
    /\ \A k \in 1..Len(conds) : ~V4_cond_fails(r, conds[k])

Regime(r) == IF Gt(r["adx"], R(25)) THEN "trend" ELSE "chop"

\* the reason of the exit check, "" when exit_hit stays False
V4_exit_reason(p, close) ==
    IF p.direction = "long"
    THEN (IF Le(close, p.sl) THEN "SL" ELSE IF Ge(close, p.tp) THEN "TP" ELSE "")
    ELSE (IF Ge(close, p.sl) THEN "SL" ELSE IF Le(close, p.tp) THEN "TP" ELSE "")

V4_exit_price_SignsSwapped(direction, close, slip) ==
    IF direction = "long" THEN Mul(close, Add(One, slip)) ELSE Mul(close, Sub(One, slip))

V4_exit_price(direction, close, slip) ==
    IF direction = "long" THEN Mul(close, Sub(One, slip)) ELSE Mul(close, Add(One, slip))

V4_pnl_CommissionPerUnit(p, exit_price, commission) ==
    Sub(IF p.direction = "long"
        THEN Mul(Sub(exit_price, p.entry_price), p.size)
        ELSE Mul(Sub(p.entry_price, exit_price), p.size),
        Mul(commission, p.size))

V4_pnl(p, exit_price, commission) ==
    Sub(IF p.direction = "long"
        THEN Mul(Sub(exit_price, p.entry_price), p.size)
        ELSE Mul(Sub(p.entry_price, exit_price), p.size),
        commission)

V4_trade_ExitAtEntry(p, ts, close, slip, commission, reason) ==
    LET exit_price == V4_exit_price(p.direction, close, slip)
    IN  [entry_time |-> p.entry_time, exit_time |-> p.entry_time, direction |-> p.direction,
         entry_price |-> p.entry_price, exit_price |-> exit_price,
         pnl |-> V4_pnl(p, exit_price, commission), size |-> p.size,
         reason |-> reason, regime |-> p.entry_regime]

V4_trade(p, ts, close, slip, commission, reason) ==
    LET exit_price == V4_exit_price(p.direction, close, slip)
    IN  [entry_time |-> p.entry_time, exit_time |-> ts, direction |-> p.direction,
         entry_price |-> p.entry_price, exit_price |-> exit_price,
         pnl |-> V4_pnl(p, exit_price, commission), size |-> p.size,
         reason |-> reason, regime |-> p.entry_regime]

V4_ledger_append_Front(ledger, t) == <<t>> \o ledger

\* line 88: trades.append({...})
V4_ledger_append(ledger, t) == Append(ledger, t)

V4_capital_after_close_Subtracts(capital, pnl) == Sub(capital, pnl)

V4_capital_after_close(capital, pnl) == Add(capital, pnl)

V4_entry_allowed_WhileOpen(pos, regime) == regime = "trend"

V4_entry_allowed_AnyRegime(pos, regime) == pos = <<>>

V4_entry_allowed(pos, regime) == pos = <<>> /\ regime = "trend"

V4_entry_direction_ShortFirst(r, c) ==
    IF V4_check_conditions(r, c.entry_short) THEN "short"
    ELSE IF V4_check_conditions(r, c.entry_long) THEN "long"
    ELSE ""

V4_entry_direction(r, c) ==
    IF V4_check_conditions(r, c.entry_long) THEN "long"
    ELSE IF V4_check_conditions(r, c.entry_short) THEN "short"
    ELSE ""

\* row.get("atr14", (row["high"] - row["low"]) * 1.5)
V4_atr(r) ==
    IF "atr14" \in DOMAIN r THEN r["atr14"] ELSE Mul(Sub(r["high"], r["low"]), Frac(3, 2))

V4_sl(direction, close, atr) ==
    IF direction = "long" THEN Sub(close, Mul(R(2), atr)) ELSE Add(close, Mul(R(2), atr))

V4_tp(direction, close, atr) ==
    IF direction = "long" THEN Add(close, Mul(Frac(7, 2), atr)) ELSE Sub(close, Mul(Frac(7, 2), atr))

V4_size(capital, risk_pct, close, sl_val) ==
    LET risk_amount   == Mul(capital, risk_pct)
        risk_distance == AbsR(Sub(close, sl_val))
    IN  IF Gt(risk_distance, Zero) THEN Div(risk_amount, risk_distance) ELSE One

V4_new_position(direction, ts, r, capital, risk_pct) ==
    LET close  == r["close"]
        atr    == V4_atr(r)
        sl_val == V4_sl(direction, close, atr)
    IN  [direction |-> direction, entry_time |-> ts, entry_price |-> close,
         sl |-> sl_val, tp |-> V4_tp(direction, close, atr),
         size |-> V4_size(capital, risk_pct, close, sl_val),
         entry_regime |-> Regime(r)]

V4_risk_pct(c) == Div(c.risk_per_trade_pct, R(100))

Init ==
    /\ NoSignals
    /\ cfg \in [entry_long : EntryLongSet, entry_short : EntryShortSet,
                exit_long : {CloseBelowEma}, exit_short : {CloseAboveEma},
                capital : CapitalVals, risk_per_trade_pct : RiskPctVals]
    /\ slippage_pct \in SlippageVals
    /\ commission_per_trade \in CommissionVals
    /\ columns \in ColumnSets
    /\ adx_filled = FALSE
    /\ nbars \in 0..MaxBars
    /\ i = 0
    /\ row = NoRow
    /\ pc = "setup"
    /\ position = <<>>
    /\ trades = <<>>
    /\ capital_start = Zero
    /\ equity = <<>>
    /\ metrics = NoMetrics
    /\ arg = NoArg
    /\ ret = NoRet

\* lines 36-53: read the config, start the equity list, label the regime
V4_Setup ==
    /\ pc = "setup"
    /\ capital_start' = cfg.capital
    /\ equity' = <<cfg.capital>>
    /\ adx_filled' = ("adx" \notin columns)
    /\ columns' = columns \cup {"adx", "regime"}
    /\ pc' = IF nbars = 0 THEN "build" ELSE "exit"
    /\ UNCHANGED <<signal_vars, cfg, slippage_pct, commission_per_trade, nbars, i, row, position, trades,
                   metrics, arg, ret>>

\* lines 55-100: the next row is drawn and the open position is exit-checked
V4_ExitStep ==
    /\ pc = "exit"
    /\ i < nbars
    /\ \E r \in Rows(columns, adx_filled) :
        LET ts     == i + 1
            close  == r["close"]
            reason == IF position # <<>> THEN V4_exit_reason(position[1], close) ELSE ""
        IN  /\ row' = r
            /\ i' = ts
            /\ IF reason # ""
               THEN LET t == V4_trade(position[1], ts, close, slippage_pct,
                                      commission_per_trade, reason)
                    IN  /\ trades' = V4_ledger_append(trades, t)
                        /\ capital_start' = V4_capital_after_close(capital_start, t.pnl)
                        /\ position' = <<>>
               ELSE UNCHANGED <<trades, capital_start, position>>
    /\ pc' = "entry"
    /\ UNCHANGED <<signal_vars, cfg, slippage_pct, commission_per_trade, columns, adx_filled, nbars, equity,
                   metrics, arg, ret>>

\* lines 102-137: entry in the trend regime while flat, then the equity point
V4_EntryStep ==
    /\ pc = "entry"
    /\ LET direction == IF V4_entry_allowed(position, Regime(row))
                        THEN V4_entry_direction(row, cfg) ELSE ""
       IN  position' = IF direction # ""
                       THEN <<V4_new_position(direction, i, row, capital_start, V4_risk_pct(cfg))>>
                       ELSE position
    /\ equity' = Append(equity, capital_start)
    /\ row' = NoRow
    /\ pc' = IF i = nbars THEN "build" ELSE "exit"
    /\ UNCHANGED <<signal_vars, cfg, slippage_pct, commission_per_trade, columns, adx_filled, nbars, i,
                   trades, capital_start, metrics, arg, ret>>

\* Series.cummax
RECURSIVE Cummax(_, _)
Cummax(xs, k) == IF k = 1 THEN xs[1] ELSE MaxR(Cummax(xs, k - 1), xs[k])

\* the smaller of m and x where NaN is skipped
MinSkipNa(m, x) ==
    IF IsNaN(x) THEN m
    ELSE IF IsNaN(m) \/ Lt(x, m) THEN x ELSE m

\* Series.min: NaN entries are skipped, NaN when nothing is left
RECURSIVE PdMin(_, _)
PdMin(xs, k) == IF k = 0 THEN NaN ELSE MinSkipNa(PdMin(xs, k - 1), xs[k])

\* (equity - equity.cummax()) / equity.cummax()
Drawdowns(eq) == [k \in 1..Len(eq) |-> NpDiv(Sub(eq[k], Cummax(eq, k)), Cummax(eq, k))]

\* lines 143-182: the metrics of the result
V4_metrics(ts, eq) ==
    IF ts = <<>>
    THEN [total_return_pct |-> Zero, profit_factor |-> Zero, win_rate_pct |-> Zero,
          max_drawdown_pct |-> Zero, num_trades |-> 0, grade |-> "D"]
    ELSE LET max_dd_pct   == Mul(PdMin(Drawdowns(eq), Len(eq)), R(100))
             gross_profit == SumWhere(ts, 1)
             gross_loss   == AbsR(SumWhere(ts, -1))
             pf   == IF Gt(gross_loss, Zero) THEN Div(gross_profit, gross_loss)
                     ELSE IF Gt(gross_profit, Zero) THEN Inf ELSE Zero
             ret_ == Mul(NpDiv(Sub(eq[Len(eq)], eq[1]), eq[1]), R(100))
             wins == Cardinality({k \in 1..Len(ts) : Gt(ts[k].pnl, Zero)})
             grade == IF Gt(pf, Frac(18, 10)) /\ Lt(AbsR(max_dd_pct), R(20)) THEN "A"
                      ELSE IF Gt(pf, Frac(13, 10)) /\ Lt(AbsR(max_dd_pct), R(35)) THEN "B"
                      ELSE IF Gt(pf, One) THEN "C" ELSE "D"
         IN  [total_return_pct |-> ret_, profit_factor |-> pf,
              win_rate_pct |-> Mul(Frac(wins, Len(ts)), R(100)),
              max_drawdown_pct |-> max_dd_pct, num_trades |-> Len(ts), grade |-> grade]

\* the lengths pd.Series(equity, index=df.index[:len(equity)]) accepts
V4_series_fits(n_values, n_index) == n_values = n_index

\* lines 139-182: pd.Series(equity, index=df.index[:len(equity)]) raises
\* ValueError when the list and the index differ in length; otherwise the
\* metrics are built
V4_BuildResults ==
    /\ pc = "build"
    /\ IF V4_series_fits(Len(equity), nbars)
       THEN pc' = "done" /\ metrics' = V4_metrics(trades, equity)
       ELSE pc' = "raised" /\ metrics' = metrics
    /\ UNCHANGED <<signal_vars, cfg, slippage_pct, commission_per_trade, columns, adx_filled, nbars, i, row,
                   position, trades, capital_start, equity, arg, ret>>

Next == V4_Setup \/ V4_ExitStep \/ V4_EntryStep \/ V4_BuildResults

Spec == Init /\ [][Next]_vars

----------------------------------------------------------------------------
(* mvp-fixed adapter:                                                      *)
(* src/vectoralgoai-mvp-fixed/VectorAlgoAI/core/backtester_adapter.py      *)
(* An optional float (sl, tp, risk_per_unit) is <<>> for None, <<x>> for x *)

AtrRule(type, mult) == [type |-> type, atr_col |-> "atr14", multiple |-> mult]

FxExitRuleSets ==
    { <<>>,
      <<AtrRule("atr_sl", R(2)), AtrRule("atr_tp", R(3))>>,
      <<AtrRule("atr_sl", R(2))>> }

FxColumnSets == {BaseColumns \cup {"atr14"}, BaseColumns}

Epsilon == Frac(1, 100000000)

\* _check_conditions with _get_val: "true", "false", or "raise" when a
\* column the evaluation reaches is absent from the row (KeyError)
RECURSIVE Fx_check_from(_, _, _)
Fx_check_from(r, conds, k) ==
    IF k > Len(conds) THEN "true"
    ELSE LET c == conds[k]
             missing(x) == x.kind = "col" /\ x.name \notin DOMAIN r
             val(x)     == IF x.kind = "col" THEN r[x.name] ELSE x.val
         IN  IF missing(c.left) \/ missing(c.right) THEN "raise"
             ELSE LET left  == val(c.left)
                      right == val(c.right)
                      ok    == CASE c.op = ">"  -> Gt(left, right)
                                 [] c.op = "<"  -> Lt(left, right)
                                 [] c.op = ">=" -> Ge(left, right)
                                 [] c.op = "<=" -> Le(left, right)
                                 [] c.op = "==" -> Eq(left, right)
                                 [] OTHER       -> FALSE
                  IN  IF ok THEN Fx_check_from(r, conds, k + 1) ELSE "false"

Fx_check_conditions(r, conds) ==
    IF conds = <<>> THEN "false" ELSE Fx_check_from(r, conds, 1)

\* the stop and the target _build_exits derives: the last atr_sl / atr_tp
\* rule whose atr_col is a column of the row decides
RECURSIVE Fx_last_level(_, _, _, _, _)
Fx_last_level(r, rules, type, side, k) ==
    IF k = 0 THEN <<>>
    ELSE LET rule == rules[k]
         IN  IF rule.type = type /\ rule.atr_col \in DOMAIN r
             THEN LET step == Mul(rule.multiple, r[rule.atr_col])
                      away == (type = "atr_sl") = (side = "long")
                  IN  <<IF away THEN Sub(r["close"], step) ELSE Add(r["close"], step)>>
             ELSE Fx_last_level(r, rules, type, side, k - 1)

Fx_build_exits(r, c, side) ==
    LET rules == IF side = "long" THEN c.exit_long ELSE c.exit_short
        sl    == Fx_last_level(r, rules, "atr_sl", side, Len(rules))
        tp    == Fx_last_level(r, rules, "atr_tp", side, Len(rules))
    IN  [sl |-> sl, tp |-> tp,
         risk_per_unit |-> IF sl = <<>> THEN <<>>
                           ELSE IF side = "long" THEN <<Sub(r["close"], sl[1])>>
                           ELSE <<Sub(sl[1], r["close"])>>]

Fx_new_position(side, ts, r, c) ==
    LET e == Fx_build_exits(r, c, side)
    IN  [direction |-> side, entry_time |-> ts, entry_price |-> r["close"],
         sl |-> e.sl, tp |-> e.tp, risk_per_unit |-> e.risk_per_unit]

Fx_sl_hit(p, price) ==
    /\ p.sl # <<>>
    /\ IF p.direction = "long" THEN Le(price, p.sl[1]) ELSE Ge(price, p.sl[1])

Fx_tp_hit(p, price) ==
    /\ p.tp # <<>>
    /\ IF p.direction = "long" THEN Ge(price, p.tp[1]) ELSE Le(price, p.tp[1])

\* two independent ifs: the take-profit test runs after the stop test and
\* overwrites its reason; "" is None
Fx_exit_reason(p, price) ==
    IF Fx_tp_hit(p, price) THEN "TP" ELSE IF Fx_sl_hit(p, price) THEN "SL" ELSE ""

Fx_trade(p, ts, price, reason) ==
    LET pnl_per_unit == IF p.direction = "long"
                        THEN Sub(price, p.entry_price) ELSE Sub(p.entry_price, price)
        risk == IF p.risk_per_unit # <<>> /\ p.risk_per_unit[1] # Zero
                THEN p.risk_per_unit[1]
                ELSE MaxR(AbsR(pnl_per_unit), Epsilon)
    IN  [entry_time |-> p.entry_time, exit_time |-> ts, direction |-> p.direction,
         entry_price |-> p.entry_price, exit_price |-> price, pnl |-> pnl_per_unit,
         rr |-> Div(pnl_per_unit, risk),
         exit_reason |-> IF reason # "" THEN reason ELSE "time_exit"]

\* capital + np.cumsum(pnl)
Fx_equity(ts, capital) == [k \in 1..Len(ts) |-> Add(capital, SumPnl(SubSeq(ts, 1, k)))]

\* np.maximum.accumulate
RECURSIVE Fx_peak(_, _)
Fx_peak(eq, k) == IF k = 1 THEN eq[1] ELSE MaxR(Fx_peak(eq, k - 1), eq[k])

RECURSIVE MinUpTo(_, _)
MinUpTo(xs, k) ==
    IF k = 1 THEN xs[1]
    ELSE LET m == MinUpTo(xs, k - 1)
         IN  IF IsNaN(m) \/ IsNaN(xs[k]) THEN NaN ELSE IF Lt(xs[k], m) THEN xs[k] ELSE m

Fx_grade_strategy(total_ret, pf, win_rate, num_trades) ==
    IF num_trades < 10 THEN "D"
    ELSE IF Gt(pf, Frac(16, 10)) /\ Gt(total_ret, R(15)) /\ Gt(win_rate, R(50)) THEN "A"
    ELSE IF Gt(pf, Frac(13, 10)) /\ Gt(total_ret, R(5)) THEN "B"
    ELSE IF Gt(pf, Frac(105, 100)) THEN "C"
    ELSE "D"

Fx_metrics(ts, capital) ==
    IF ts = <<>>
    THEN [total_return_pct |-> Zero, profit_factor |-> Zero, win_rate_pct |-> Zero,
          max_drawdown_pct |-> Zero, num_trades |-> 0, grade |-> "D"]
    ELSE LET eq   == Fx_equity(ts, capital)
             dd   == [k \in 1..Len(ts) |->
                         NpDiv(Sub(eq[k], Fx_peak(eq, k)), Fx_peak(eq, k))]
             gross_profit == SumWhere(ts, 1)
             gross_loss   == Neg(SumWhere(ts, -1))
             pf   == IF Le(gross_loss, Zero)
                     THEN (IF Gt(gross_profit, Zero) THEN Inf ELSE Zero)
                     ELSE Div(gross_profit, gross_loss)
             ret_ == Mul(NpDiv(Sub(eq[Len(ts)], capital), capital), R(100))
             wins == Cardinality({k \in 1..Len(ts) : Gt(ts[k].pnl, Zero)})
             wr   == Mul(Frac(wins, Len(ts)), R(100))
         IN  [total_return_pct |-> ret_, profit_factor |-> pf, win_rate_pct |-> wr,
              max_drawdown_pct |-> Mul(MinUpTo(dd, Len(ts)), R(100)),
              num_trades |-> Len(ts), grade |-> Fx_grade_strategy(ret_, pf, wr, Len(ts))]

\* the state after lines 116-126
InitFixed ==
    /\ NoSignals
    /\ cfg \in [entry_long : EntryLongSet, entry_short : EntryShortSet,
                exit_long : FxExitRuleSets, exit_short : FxExitRuleSets,
                capital : CapitalVals]
    /\ columns \in FxColumnSets
    /\ nbars \in 0..MaxBars
    /\ i = 0
    /\ row = NoRow
    /\ pc = "loop"
    /\ position = <<>>
    /\ trades = <<>>
    /\ metrics = NoMetrics
    /\ arg = NoArg
    /\ ret = NoRet
    /\ slippage_pct = Zero
    /\ commission_per_trade = Zero
    /\ adx_filled = FALSE
    /\ capital_start = Zero
    /\ equity = <<>>

\* lines 128-196: one iteration of the loop
Fx_Bar ==
    /\ pc = "loop"
    /\ i < nbars
    /\ \E r \in Rows(columns, FALSE) :
        LET ts     == i + 1
            price  == r["close"]
            reason == IF position # <<>> THEN Fx_exit_reason(position[1], price) ELSE ""
            long   == Fx_check_conditions(r, cfg.entry_long)
            short  == IF long = "false" THEN Fx_check_conditions(r, cfg.entry_short)
                      ELSE "false"
        IN  /\ row' = r
            /\ i' = ts
            /\ IF position # <<>>
               THEN IF reason # "" \/ ts = nbars
                    THEN /\ trades' = Append(trades, Fx_trade(position[1], ts, price, reason))
                         /\ position' = <<>>
                         /\ pc' = pc
                    ELSE UNCHANGED <<trades, position, pc>>
               ELSE /\ trades' = trades
                    /\ pc' = IF "raise" \in {long, short} THEN "raised" ELSE pc
                    /\ position' =
                          IF long = "true" THEN <<Fx_new_position("long", ts, r, cfg)>>
                          ELSE IF short = "true" THEN <<Fx_new_position("short", ts, r, cfg)>>
                          ELSE position
    /\ UNCHANGED <<signal_vars, cfg, columns, nbars, metrics, slippage_pct, commission_per_trade,
                   adx_filled, capital_start, equity, arg, ret>>

\* lines 198-257: the metrics of the ledger
Fx_BuildResults ==
    /\ pc = "loop"
    /\ i = nbars
    /\ metrics' = Fx_metrics(trades, cfg.capital)
    /\ pc' = "done"
    /\ UNCHANGED <<signal_vars, cfg, columns, nbars, i, row, position, trades, slippage_pct,
                   commission_per_trade, adx_filled, capital_start, equity, arg, ret>>

NextFixed == Fx_Bar \/ Fx_BuildResults

SpecFixed == InitFixed /\ [][NextFixed]_vars

----------------------------------------------------------------------------
(* Metrics helpers: src/core/metrics.py, each function called on its own *)

MaxPoints == 2

MaxTrades == 2

SeqsUpTo(S, n) == UNION {[1..k -> S] : k \in 0..n}

\* the values of an equity series handed to max_drawdown
EquityVals == {R(-4), R(-2), Zero, R(8), R(10)}

\* the values of an equity series handed to compute_metrics
MetricsEquityVals == {R(-2), R(8), R(10)}

\* the rows of a trades frame: pnl and the rr recorded with it
TradeVals == {[pnl |-> R(-4), rr |-> R(-1)], [pnl |-> Zero, rr |-> Zero],
              [pnl |-> R(5), rr |-> Inf], [pnl |-> R(6), rr |-> Frac(3, 2)],
              [pnl |-> R(8), rr |-> R(2)]}

StartingCapitalVals == {R(10)}

\* the engine variables while a function is called on its own
EngineIdle ==
    /\ NoSignals
    /\ cfg = [entry_long |-> <<>>, entry_short |-> <<>>, exit_long |-> <<>>,
              exit_short |-> <<>>, capital |-> Zero, risk_per_trade_pct |-> Zero]
    /\ slippage_pct = Zero
    /\ commission_per_trade = Zero
    /\ columns = {}
    /\ adx_filled = FALSE
    /\ nbars = 0
    /\ i = 0
    /\ row = NoRow
    /\ position = <<>>
    /\ trades = <<>>
    /\ capital_start = Zero
    /\ equity = <<>>
    /\ metrics = NoMetrics

max_drawdown(eq) ==
    IF eq = <<>> THEN Zero
    ELSE Mul(PdMin(Drawdowns(eq), Len(eq)), R(100))

profit_factor_NeverInf(ts) ==
    IF ts = <<>> THEN Zero
    ELSE LET wins   == SumWhere(ts, 1)
             losses == AbsR(SumWhere(ts, -1))
         IN  IF Eq(losses, Zero) THEN Zero
             ELSE Div(wins, losses)

profit_factor(ts) ==
    IF ts = <<>> THEN Zero
    ELSE LET wins   == SumWhere(ts, 1)
             losses == AbsR(SumWhere(ts, -1))
         IN  IF Eq(losses, Zero) THEN (IF Gt(wins, Zero) THEN Inf ELSE Zero)
             ELSE Div(wins, losses)

win_rate(ts) ==
    IF ts = <<>> THEN Zero
    ELSE Mul(Frac(Cardinality({k \in 1..Len(ts) : Gt(ts[k].pnl, Zero)}), Len(ts)), R(100))

RECURSIVE SumRr(_, _)
SumRr(ts, k) ==
    IF k = 0 THEN Zero
    ELSE Add(SumRr(ts, k - 1), IF IsFinite(ts[k].rr) THEN ts[k].rr ELSE Zero)

\* the mean of the rr values that are neither infinite nor NaN, NaN when
\* there is none
avg_rr(ts) ==
    IF ts = <<>> THEN Zero
    ELSE LET kept == Cardinality({k \in 1..Len(ts) : IsFinite(ts[k].rr)})
         IN  IF kept = 0 THEN NaN ELSE Div(SumRr(ts, Len(ts)), R(kept))

\* lines 85-92 with the test of "B" on the wrong side of -30
grade_DeepDrawdownB(pf, md) ==
    IF Gt(pf, Frac(18, 10)) /\ Gt(md, R(-20)) THEN "A"
    ELSE IF Gt(pf, Frac(13, 10)) /\ Lt(md, R(-30)) THEN "B"
    ELSE IF Gt(pf, One) THEN "C"
    ELSE "D"

\* lines 85-92
grade(pf, md) ==
    IF Gt(pf, Frac(18, 10)) /\ Gt(md, R(-20)) THEN "A"
    ELSE IF Gt(pf, Frac(13, 10)) /\ Gt(md, R(-30)) THEN "B"
    ELSE IF Gt(pf, One) THEN "C"
    ELSE "D"

\* lines 85-103: the dict of the computed metrics with its grade
graded(m) == [m EXCEPT !.grade = grade(m.profit_factor, m.max_drawdown_pct)]

compute_metrics(eq, ts, starting_capital) ==
    IF eq = <<>>
    THEN [grade |-> "D", total_return_pct |-> Zero, max_drawdown_pct |-> Zero,
          profit_factor |-> Zero, win_rate_pct |-> Zero, avg_rr_per_trade |-> Zero,
          num_trades |-> 0, capital_tested |-> starting_capital]
    ELSE graded([grade |-> "",
                 total_return_pct |->
                     Mul(Sub(NpDiv(eq[Len(eq)], starting_capital), One), R(100)),
                 max_drawdown_pct |-> max_drawdown(eq),
                 profit_factor |-> profit_factor(ts),
                 win_rate_pct |-> win_rate(ts),
                 avg_rr_per_trade |-> avg_rr(ts),
                 num_trades |-> Len(ts),
                 capital_tested |-> starting_capital])

\* one call: a function and its arguments
InitMetrics ==
    /\ EngineIdle
    /\ pc = "call"
    /\ \/ \E e \in SeqsUpTo(EquityVals, MaxPoints) :
              arg = [fn |-> "max_drawdown", equity |-> e]
       \/ \E t \in SeqsUpTo(TradeVals, MaxTrades) :
              arg = [fn |-> "profit_factor", trades |-> t]
       \/ \E e \in SeqsUpTo(MetricsEquityVals, MaxPoints), t \in SeqsUpTo(TradeVals, MaxTrades),
             c \in StartingCapitalVals :
              arg = [fn |-> "compute_metrics", equity |-> e, trades |-> t,
                     starting_capital |-> c]
    /\ ret = NoRet

Call_max_drawdown ==
    /\ pc = "call"
    /\ arg.fn = "max_drawdown"
    /\ ret' = [fn |-> arg.fn, value |-> max_drawdown(arg.equity)]
    /\ pc' = "returned"
    /\ UNCHANGED <<signal_vars, cfg, slippage_pct, commission_per_trade, columns, adx_filled, nbars, i, row,
                   position, trades, capital_start, equity, metrics, arg>>

Call_profit_factor ==
    /\ pc = "call"
    /\ arg.fn = "profit_factor"
    /\ ret' = [fn |-> arg.fn, value |-> profit_factor(arg.trades)]
    /\ pc' = "returned"
    /\ UNCHANGED <<signal_vars, cfg, slippage_pct, commission_per_trade, columns, adx_filled, nbars, i, row,
                   position, trades, capital_start, equity, metrics, arg>>

Call_compute_metrics ==
    /\ pc = "call"
    /\ arg.fn = "compute_metrics"
    /\ ret' = [fn |-> arg.fn,
               value |-> compute_metrics(arg.equity, arg.trades, arg.starting_capital)]
    /\ pc' = "returned"
    /\ UNCHANGED <<signal_vars, cfg, slippage_pct, commission_per_trade, columns, adx_filled, nbars, i, row,
                   position, trades, capital_start, equity, metrics, arg>>

NextMetrics == Call_max_drawdown \/ Call_profit_factor \/ Call_compute_metrics

SpecMetrics == InitMetrics /\ [][NextMetrics]_vars

----------------------------------------------------------------------------
(* Rule engine: src/core/rule_engine.py *)

MaxRows == 2

RuleColumnSets == {{"close", "ema20"}, {"close"}}

RuleVals == {NaN, R(9), R(11)}

\* the frames of 1..MaxRows rows over one set of columns
RuleFrames == UNION {[1..n -> [cols -> RuleVals]] : n \in 1..MaxRows, cols \in RuleColumnSets}

\* the keys of OP_MAP
OP_MAP == {">", "<", ">=", "<=", "==", "!="}

RuleOps == OP_MAP \cup {"crosses_above", "crosses_below", "~="}

RuleConds ==
    {Cond(l, op, r) : l \in {Col("close"), Col("ema20")},
                      op \in RuleOps, r \in {Col("ema20"), Lit(R(10))}}

\* OP_MAP[op](a, b)
Compare(op, a, b) ==
    CASE op = ">"  -> Gt(a, b)
      [] op = "<"  -> Lt(a, b)
      [] op = ">=" -> Ge(a, b)
      [] op = "<=" -> Le(a, b)
      [] op = "==" -> Eq(a, b)
      [] op = "!=" -> Ne(a, b)

\* row[key] raises KeyError
KeyMissing(r, key) == key.kind = "col" /\ key.name \notin DOMAIN r

\* _get_value where the key is a number or a column of the row
get_value(r, key) == IF key.kind = "col" THEN r[key.name] ELSE key.val

\* df.iloc[idx - 1] on every bar: at idx 0 that is df.iloc[-1], the last row
prev_row_Wraps(df, idx) == IF idx > 0 THEN df[idx] ELSE df[Len(df)]

\* line 35: df.iloc[idx - 1] if idx > 0 else cur; idx counts from 0
prev_row(df, idx) == IF idx > 0 THEN df[idx] ELSE df[idx + 1]

\* eval_condition; idx counts from 0; the result is the exception raised, ""
\* for none, and the value returned
eval_condition(df, idx, cond) ==
    LET cur    == df[idx + 1]
        prev   == prev_row(df, idx)
        absent == KeyMissing(cur, cond.left) \/ KeyMissing(cur, cond.right)
    IN  IF cond.op = "crosses_above"
        THEN IF absent THEN [raised |-> "KeyError", value |-> FALSE]
             ELSE [raised |-> "",
                   value  |-> /\ Le(get_value(prev, cond.left), get_value(prev, cond.right))
                              /\ Gt(get_value(cur, cond.left), get_value(cur, cond.right))]
        ELSE IF cond.op = "crosses_below"
        THEN IF absent THEN [raised |-> "KeyError", value |-> FALSE]
             ELSE [raised |-> "",
                   value  |-> /\ Ge(get_value(prev, cond.left), get_value(prev, cond.right))
                              /\ Lt(get_value(cur, cond.left), get_value(cur, cond.right))]
        ELSE IF cond.op \notin OP_MAP THEN [raised |-> "ValueError", value |-> FALSE]
        ELSE IF absent THEN [raised |-> "KeyError", value |-> FALSE]
        ELSE [raised |-> "",
              value  |-> Compare(cond.op, get_value(cur, cond.left), get_value(cur, cond.right))]

\* all(eval_condition(df, idx, c) for c in conds) from condition k on: the
\* first false condition or exception ends it
RECURSIVE eval_all(_, _, _, _)
eval_all(df, idx, conds, k) ==
    IF k > Len(conds) THEN [raised |-> "", value |-> TRUE]
    ELSE LET e == eval_condition(df, idx, conds[k])
         IN  IF e.raised # "" \/ ~e.value THEN e
             ELSE eval_all(df, idx, conds, k + 1)

\* any(eval_condition(df, idx, c) for c in conds) from condition k on
RECURSIVE eval_any(_, _, _, _)
eval_any(df, idx, conds, k) ==
    IF k > Len(conds) THEN [raised |-> "", value |-> FALSE]
    ELSE LET e == eval_condition(df, idx, conds[k])
         IN  IF e.raised # "" \/ e.value THEN e
             ELSE eval_any(df, idx, conds, k + 1)

\* lines 59-71; a group is a record, its keys are the fields of the record
eval_rule_group(df, idx, group) ==
    IF "type" \in DOMAIN group THEN [raised |-> "", value |-> FALSE]
    ELSE IF "all" \in DOMAIN group THEN eval_all(df, idx, group.all, 1)
    ELSE IF "any" \in DOMAIN group THEN eval_any(df, idx, group.any, 1)
    ELSE [raised |-> "ValueError", value |-> FALSE]

\* any(eval_rule_group(df, idx, g) for g in groups if "type" not in g) from
\* group k on
RECURSIVE check_groups(_, _, _, _)
check_groups(df, idx, groups, k) ==
    IF k > Len(groups) THEN [raised |-> "", value |-> FALSE]
    ELSE IF "type" \in DOMAIN groups[k] THEN check_groups(df, idx, groups, k + 1)
    ELSE LET e == eval_rule_group(df, idx, groups[k])
         IN  IF e.raised # "" \/ e.value THEN e
             ELSE check_groups(df, idx, groups, k + 1)

check_entry_long(df, idx, entry_cfg) == check_groups(df, idx, entry_cfg.long, 1)

check_entry_short(df, idx, entry_cfg) == check_groups(df, idx, entry_cfg.short, 1)

check_exit_long(df, idx, exit_cfg) == check_groups(df, idx, exit_cfg.long, 1)

check_exit_short(df, idx, exit_cfg) == check_groups(df, idx, exit_cfg.short, 1)

InitRule ==
    /\ EngineIdle
    /\ pc = "call"
    /\ \E df \in RuleFrames, c \in RuleConds :
           \E idx \in 0..(Len(df) - 1) :
               arg = [fn |-> "eval_condition", df |-> df, idx |-> idx, cond |-> c]
    /\ ret = NoRet

Call_eval_condition ==
    /\ pc = "call"
    /\ arg.fn = "eval_condition"
    /\ ret' = [fn |-> arg.fn] @@ eval_condition(arg.df, arg.idx, arg.cond)
    /\ pc' = "returned"
    /\ UNCHANGED <<signal_vars, cfg, slippage_pct, commission_per_trade, columns, adx_filled, nbars, i, row,
                   position, trades, capital_start, equity, metrics, arg>>

NextRule == Call_eval_condition

SpecRule == InitRule /\ [][NextRule]_vars

----------------------------------------------------------------------------
(* _check_conditions of src/core/backtester_adapter.py, called on its own *)

MaxConds == 2

\* the rows handed to _check_conditions: "ema20" may be absent or NaN
CheckRows == UNION {[cols -> RuleVals] : cols \in RuleColumnSets}

\* the operators _check_conditions tests for
V4_ops == {">", "<", ">=", "<=", "=="}

CheckOps == V4_ops \cup {"!=", "crosses_above", "=>"}

CheckConds ==
    {Cond(Col("close"), op, Col("ema20")) : op \in CheckOps}
    \cup {Cond(Col("ema20"), op, Lit(R(10))) : op \in CheckOps}

InitCheck ==
    /\ EngineIdle
    /\ pc = "call"
    /\ \E r \in CheckRows, conds \in SeqsUpTo(CheckConds, MaxConds) :
           arg = [fn |-> "_check_conditions", row |-> r, conds |-> conds]
    /\ ret = NoRet

\* lines 214-226: no statement of _check_conditions raises on these arguments
Call_check_conditions ==
    /\ pc = "call"
    /\ arg.fn = "_check_conditions"
    /\ ret' = [fn |-> arg.fn, raised |-> "", value |-> V4_check_conditions(arg.row, arg.conds)]
    /\ pc' = "returned"
    /\ UNCHANGED <<signal_vars, cfg, slippage_pct, commission_per_trade, columns, adx_filled, nbars, i, row,
                   position, trades, capital_start, equity, metrics, arg>>

NextCheck == Call_check_conditions

SpecCheck == InitCheck /\ [][NextCheck]_vars

----------------------------------------------------------------------------
(* Monte Carlo step of the V4 run_backtest_v2 (lines 184-200), run twice on *)
(* the ledger and the capital the loop left                                *)

\* monte_carlo_runs of the call
RunsVals == {0, 1}

MCPnlVals == {R(-4), R(5)}

MCCapitalVals == {R(10)}

\* the seed keyword of the call: <<>> when the call passes none
SeedVals == {<<>>, <<7>>}

\* values np.random.normal(0, 0.0005) can return
NoiseVals == {Zero, Frac(1, 500)}

\* the keyword parameters of run_backtest_v2 (lines 20-26)
V4_keywords == {"df", "cfg", "slippage_pct", "commission_per_trade", "monte_carlo_runs"}

\* trades_df["pnl"] / capital_start
MC_returns(pnl, capital) == [k \in 1..Len(pnl) |-> NpDiv(pnl[k], capital)]

\* one simulated path: the rows returns.sample(frac=1, replace=True) picks
\* and the noise added to each
MC_Draws(n) == [picks : [1..n -> 1..n], noise : [1..n -> NoiseVals]]

\* np.cumprod(1 + shuffled + noise)[k]
RECURSIVE MC_cumprod(_, _, _)
MC_cumprod(returns, draw, k) ==
    IF k = 0 THEN One
    ELSE Mul(MC_cumprod(returns, draw, k - 1),
             Add(Add(One, returns[draw.picks[k]]), draw.noise[k]))

\* (sim_path[-1]) * 100
MC_path_return(returns, draw) ==
    Mul(Sub(MC_cumprod(returns, draw, Len(returns)), One), R(100))

RECURSIVE SumSeq(_, _)
SumSeq(xs, k) == IF k = 0 THEN Zero ELSE Add(SumSeq(xs, k - 1), xs[k])

\* the k-th smallest value of xs
Sorted(xs, k) ==
    CHOOSE v \in {xs[j] : j \in 1..Len(xs)} :
        /\ Cardinality({j \in 1..Len(xs) : Lt(xs[j], v)}) < k
        /\ Cardinality({j \in 1..Len(xs) : Le(xs[j], v)}) >= k

\* np.percentile(xs, q) with linear interpolation, q in percent
Percentile(xs, q) ==
    LET n    == Len(xs)
        pos  == (q * (n - 1)) \div 100
        part == Frac((q * (n - 1)) % 100, 100)
        lo   == Sorted(xs, pos + 1)
        hi   == Sorted(xs, IF pos + 2 <= n THEN pos + 2 ELSE n)
    IN  Add(lo, Mul(part, Sub(hi, lo)))

\* lines 185-200: <<>> is the empty dict
V4_monte_carlo(pnl, capital, runs, draws) ==
    IF runs > 0 /\ pnl # <<>>
    THEN LET returns    == MC_returns(pnl, capital)
             mc_returns == [k \in 1..runs |-> MC_path_return(returns, draws[k])]
         IN  <<[mean_return   |-> Div(SumSeq(mc_returns, runs), R(runs)),
                median_return |-> Percentile(mc_returns, 50),
                worst_5pct    |-> Percentile(mc_returns, 5),
                best_5pct     |-> Percentile(mc_returns, 95),
                runs          |-> runs]>>
    ELSE <<>>

\* capital is raw["risk"]["capital"] (line 42); capital_start is what line 99
\* has made of it when the loop ends, the capital plus the pnl of the ledger
InitMC ==
    /\ EngineIdle
    /\ pc = "call"
    /\ \E pnl \in SeqsUpTo(MCPnlVals, MaxTrades), c \in MCCapitalVals, runs \in RunsVals,
          seed \in SeedVals :
           arg = [fn |-> "monte_carlo", pnl |-> pnl, capital |-> c,
                  capital_start |-> Add(c, SumSeq(pnl, Len(pnl))),
                  monte_carlo_runs |-> runs, seed |-> seed]
    /\ ret = NoRet

\* the reports one run can return, over all the samples it can draw
MC_Reports(pnl, capital, runs) ==
    {V4_monte_carlo(pnl, capital, runs, d) : d \in [1..runs -> MC_Draws(Len(pnl))]}

\* a call that passes a seed is a call with a keyword run_backtest_v2 does not
\* have (TypeError); otherwise each of the two runs draws its own samples
Call_monte_carlo ==
    /\ pc = "call"
    /\ arg.fn = "monte_carlo"
    /\ IF arg.seed # <<>> /\ "seed" \notin V4_keywords
       THEN ret' = [fn |-> arg.fn, raised |-> "TypeError", first |-> <<>>, second |-> <<>>,
                    returns |-> <<>>]
       ELSE \E r1, r2 \in MC_Reports(arg.pnl, arg.capital_start, arg.monte_carlo_runs) :
                ret' = [fn |-> arg.fn, raised |-> "", first |-> r1, second |-> r2,
                        returns |-> IF arg.monte_carlo_runs > 0
                                    THEN MC_returns(arg.pnl, arg.capital_start) ELSE <<>>]
    /\ pc' = "returned"
    /\ UNCHANGED <<signal_vars, cfg, slippage_pct, commission_per_trade, columns, adx_filled, nbars, i, row,
                   position, trades, capital_start, equity, metrics, arg>>

NextMC == Call_monte_carlo

SpecMC == InitMC /\ [][NextMC]_vars

----------------------------------------------------------------------------
(* Strategy parser:                                                        *)
(* src/vectoralgoai-mvp-fixed/VectorAlgoAI/core/strategy_config.py         *)
(* A rule dict is a record; its keys are the fields of the record          *)

MaxRules == 2

\* the rule dicts of a configuration: comparisons, ATR rules, a rule of
\* another type, a comparison without "right"
RuleDicts ==
    { [left |-> "close", op |-> ">", right |-> "ema20"],
      [left |-> "close", op |-> "<", right |-> "ema20"],
      [type |-> "atr_sl", atr_col |-> "atr14", multiple |-> 2],
      [type |-> "atr_tp", atr_col |-> "atr14", multiple |-> 3],
      [type |-> "time_exit", bars |-> 5],
      [left |-> "close", op |-> ">"] }

ShortRuleLists == {<<>>, <<[left |-> "close", op |-> "<", right |-> "ema20"]>>}

IsComparison(r) == "type" \notin DOMAIN r

IsAtrRule(r) == "type" \in DOMAIN r /\ r.type \in {"atr_sl", "atr_tp"}

Stripped(r) == [left |-> r.left, op |-> r.op, right |-> r.right]

RECURSIVE Conditions(_, _)
Conditions(rule_list, k) ==
    IF k = 0 THEN <<>>
    ELSE IF IsComparison(rule_list[k])
         THEN Append(Conditions(rule_list, k - 1), Stripped(rule_list[k]))
         ELSE Conditions(rule_list, k - 1)

\* lines 57-92; the result is the exception raised, "" for none, and the list
parse_comparison_rules(rule_list) ==
    IF \E k \in 1..Len(rule_list) :
           /\ IsComparison(rule_list[k])
           /\ ~({"left", "op", "right"} \subseteq DOMAIN rule_list[k])
    THEN [raised |-> "ValueError", value |-> <<>>]
    ELSE LET conditions == Conditions(rule_list, Len(rule_list))
         IN  [raised |-> "",
              value  |-> IF conditions = <<>> THEN <<>> ELSE <<[all |-> conditions]>>]

\* lines 95-111
parse_atr_rules(rule_list) == SelectSeq(rule_list, IsAtrRule)

\* lines 167-168: the ATR rules when there are any, else the comparison group
exit_rules(atr, cmp) == IF Len(atr) > 0 THEN atr ELSE cmp

\* lines 140-192, the rule structure of the StrategyConfig: data is the
\* loaded configuration
parse_strategy_yaml(data) ==
    LET entry_long_cmp  == parse_comparison_rules(data.entry.long)
        entry_short_cmp == parse_comparison_rules(data.entry.short)
        exit_long_cmp   == parse_comparison_rules(data.exit.long)
        exit_short_cmp  == parse_comparison_rules(data.exit.short)
    IN  IF \E p \in {entry_long_cmp, entry_short_cmp, exit_long_cmp, exit_short_cmp} :
               p.raised # ""
        THEN [raised |-> "ValueError", entry |-> <<>>, exit |-> <<>>]
        ELSE [raised |-> "",
              entry  |-> [long |-> entry_long_cmp.value, short |-> entry_short_cmp.value],
              exit   |-> [long  |-> exit_rules(parse_atr_rules(data.exit.long),
                                               exit_long_cmp.value),
                          short |-> exit_rules(parse_atr_rules(data.exit.short),
                                               exit_short_cmp.value)]]

InitParse ==
    /\ EngineIdle
    /\ pc = "call"
    /\ \E el, xl \in SeqsUpTo(RuleDicts, MaxRules), es, xs \in ShortRuleLists :
           arg = [fn |-> "parse_strategy_yaml",
                  data |-> [entry |-> [long |-> el, short |-> es],
                            exit  |-> [long |-> xl, short |-> xs]]]
    /\ ret = NoRet

\* the configuration is parsed
Call_parse_strategy_yaml ==
    /\ pc = "call"
    /\ arg.fn = "parse_strategy_yaml"
    /\ ret' = [fn |-> arg.fn, cfg |-> parse_strategy_yaml(arg.data)]
    /\ pc' = IF ret'.cfg.raised = "" THEN "parsed" ELSE "returned"
    /\ UNCHANGED <<signal_vars, cfg, slippage_pct, commission_per_trade, columns, adx_filled, nbars, i, row,
                   position, trades, capital_start, equity, metrics, arg>>

\* cfg.entry and cfg.exit are taken as the configuration and parsed again
Call_parse_again ==
    /\ pc = "parsed"
    /\ ret' = [fn |-> ret.fn, cfg |-> ret.cfg,
               again |-> parse_strategy_yaml([entry |-> ret.cfg.entry, exit |-> ret.cfg.exit])]
    /\ pc' = "reparsed"
    /\ UNCHANGED <<signal_vars, cfg, slippage_pct, commission_per_trade, columns, adx_filled, nbars, i, row,
                   position, trades, capital_start, equity, metrics, arg>>

NextParse == Call_parse_strategy_yaml \/ Call_parse_again

SpecParse == InitParse /\ [][NextParse]_vars

----------------------------------------------------------------------------
(* Entry / exit wrappers of src/core/rule_engine.py, each called on its own *)

\* the rule sets handed to the entry / exit wrappers: groups with "all" or
\* "any" over up to MaxConds conditions, an ATR rule, a group with neither key
GroupConds == {Cond(Col("close"), ">", Col("ema20")), Cond(Col("close"), "<", Col("ema20"))}

RuleGroups ==
    {[all |-> cs] : cs \in SeqsUpTo(GroupConds, MaxConds)}
        \cup {[any |-> cs] : cs \in SeqsUpTo(GroupConds, MaxConds)}
        \cup {[type |-> "atr_sl"], [name |-> "trend"]}

\* the frames of one bar that has both columns
RuleSetFrames == [1..1 -> [{"close", "ema20"} -> RuleVals]]

RuleSetFns == {"check_entry_long", "check_entry_short", "check_exit_long", "check_exit_short"}

\* the side of the configuration a wrapper reads
RuleSetSide(fn) == IF fn \in {"check_entry_long", "check_exit_long"} THEN "long" ELSE "short"

InitRuleSet ==
    /\ EngineIdle
    /\ pc = "call"
    /\ \E fn \in RuleSetFns, gs \in SeqsUpTo(RuleGroups, MaxRules), df \in RuleSetFrames :
           arg = [fn |-> fn, df |-> df, idx |-> 0,
                  cfg |-> [long  |-> IF RuleSetSide(fn) = "long" THEN gs ELSE <<>>,
                           short |-> IF RuleSetSide(fn) = "short" THEN gs ELSE <<>>]]
    /\ ret = NoRet

Call_check_entry_long ==
    /\ pc = "call"
    /\ arg.fn = "check_entry_long"
    /\ ret' = [fn |-> arg.fn] @@ check_entry_long(arg.df, arg.idx, arg.cfg)
    /\ pc' = "returned"
    /\ UNCHANGED <<signal_vars, cfg, slippage_pct, commission_per_trade, columns, adx_filled, nbars, i, row,
                   position, trades, capital_start, equity, metrics, arg>>

Call_check_entry_short ==
    /\ pc = "call"
    /\ arg.fn = "check_entry_short"
    /\ ret' = [fn |-> arg.fn] @@ check_entry_short(arg.df, arg.idx, arg.cfg)
    /\ pc' = "returned"
    /\ UNCHANGED <<signal_vars, cfg, slippage_pct, commission_per_trade, columns, adx_filled, nbars, i, row,
                   position, trades, capital_start, equity, metrics, arg>>

Call_check_exit_long ==
    /\ pc = "call"
    /\ arg.fn = "check_exit_long"
    /\ ret' = [fn |-> arg.fn] @@ check_exit_long(arg.df, arg.idx, arg.cfg)
    /\ pc' = "returned"
    /\ UNCHANGED <<signal_vars, cfg, slippage_pct, commission_per_trade, columns, adx_filled, nbars, i, row,
                   position, trades, capital_start, equity, metrics, arg>>

Call_check_exit_short ==
    /\ pc = "call"
    /\ arg.fn = "check_exit_short"
    /\ ret' = [fn |-> arg.fn] @@ check_exit_short(arg.df, arg.idx, arg.cfg)
    /\ pc' = "returned"
    /\ UNCHANGED <<signal_vars, cfg, slippage_pct, commission_per_trade, columns, adx_filled, nbars, i, row,
                   position, trades, capital_start, equity, metrics, arg>>

NextRuleSet ==
    \/ Call_check_entry_long
    \/ Call_check_entry_short
    \/ Call_check_exit_long
    \/ Call_check_exit_short

SpecRuleSet == InitRuleSet /\ [][NextRuleSet]_vars

----------------------------------------------------------------------------
(* Simple backtester: src/vectoralgoai-mvp-fixed/core/backtester.py, its    *)
(* functions called on their own                                           *)

\* trades["rr"].mean(): NaN entries are skipped, an infinite sum stays
\* infinite, NaN when nothing is left
RECURSIVE Bt_sum_rr(_, _)
Bt_sum_rr(ts, k) ==
    IF k = 0 THEN Zero
    ELSE Add(Bt_sum_rr(ts, k - 1), IF IsNaN(ts[k].rr) THEN Zero ELSE ts[k].rr)

Bt_mean_rr(ts) ==
    LET kept == Cardinality({k \in 1..Len(ts) : ~IsNaN(ts[k].rr)})
        sum  == Bt_sum_rr(ts, Len(ts))
    IN  IF kept = 0 THEN NaN
        ELSE IF IsFinite(sum) THEN Div(sum, R(kept)) ELSE sum

\* line 123
Bt_profit_factor(gross_profit, gross_loss) ==
    IF Gt(gross_loss, Zero) THEN Div(gross_profit, gross_loss) ELSE Inf

\* line 126
Bt_grade(pf, max_dd_pct) ==
    IF Gt(pf, Frac(3, 2)) /\ Gt(max_dd_pct, R(-15)) THEN "A" ELSE "B"

\* _compute_metrics, lines 84-137
Bt_compute_metrics(eq, ts, capital) ==
    IF eq = <<>>
    THEN [grade |-> "Incomplete", win_rate_pct |-> Zero, profit_factor |-> Zero,
          max_drawdown_pct |-> Zero, total_return_pct |-> Zero,
          avg_rr_per_trade |-> Zero, capital_tested |-> capital, num_trades |-> 0]
    ELSE LET total_return_pct == Mul(Sub(NpDiv(eq[Len(eq)], capital), One), R(100))
             max_dd_pct       == Mul(PdMin(Drawdowns(eq), Len(eq)), R(100))
         IN  IF ts = <<>>
             THEN [grade |-> "D", win_rate_pct |-> Zero, profit_factor |-> Zero,
                   max_drawdown_pct |-> max_dd_pct,
                   total_return_pct |-> total_return_pct,
                   avg_rr_per_trade |-> Zero, capital_tested |-> capital,
                   num_trades |-> 0]
             ELSE LET wins == Cardinality({k \in 1..Len(ts) : Gt(ts[k].pnl, Zero)})
                      pf   == Bt_profit_factor(SumWhere(ts, 1), AbsR(SumWhere(ts, -1)))
                  IN  [grade |-> Bt_grade(pf, max_dd_pct),
                       win_rate_pct |-> Mul(Frac(wins, Len(ts)), R(100)),
                       profit_factor |-> pf,
                       max_drawdown_pct |-> max_dd_pct,
                       total_return_pct |-> total_return_pct,
                       avg_rr_per_trade |-> Bt_mean_rr(ts),
                       capital_tested |-> capital,
                       num_trades |-> Len(ts)]

\* the rule objects of a strategy: comparison rules with the attributes left, op
\* and right, and an ATR exit rule that has neither left nor right
BtOps == {">", "==", "cross", "crossover", "crossunder", "crosses_above"}

BtRules ==
    {[left |-> "close", op |-> o, right |-> "ema20"] : o \in BtOps}
        \cup {[type |-> "atr_sl"]}

BtRuleLists == SeqsUpTo(BtRules, MaxRules)

\* _resolve_rule_type, lines 9-17: getattr(rule_obj, "op", None)
Bt_resolve_rule_type(rule) ==
    LET op == IF "op" \in DOMAIN rule THEN rule.op ELSE ""
    IN  IF op \in {">", "<", ">=", "<=", "==", "!="} THEN op
        ELSE IF op \in {"cross", "crossover"} THEN "crossover"
        ELSE IF op = "crossunder" THEN "crossunder"
        ELSE "unknown"

\* lines 28-43 and 60-76: the lambda appended for a rule, none for a rule
\* type without a branch
Bt_lambda(rule) ==
    LET rtype == Bt_resolve_rule_type(rule)
    IN  IF rtype \in {">", "<", "crossover", "crossunder"}
        THEN <<[rtype |-> rtype, l |-> rule.left, r |-> rule.right]>>
        ELSE <<>>

\* _parse_entry_rules over the first k rules: rule.left and rule.right raise
\* AttributeError on a rule without them
RECURSIVE Bt_parse_entry_rules(_, _)
Bt_parse_entry_rules(rules, k) ==
    IF k = 0 THEN [raised |-> "", parsed |-> <<>>]
    ELSE LET before == Bt_parse_entry_rules(rules, k - 1)
         IN  IF before.raised # "" THEN before
             ELSE IF ~({"left", "right"} \subseteq DOMAIN rules[k])
             THEN [raised |-> "AttributeError", parsed |-> <<>>]
             ELSE [raised |-> "", parsed |-> before.parsed \o Bt_lambda(rules[k])]

\* _parse_exit_rules over the first k rules: a rule without left or right is
\* skipped
RECURSIVE Bt_parse_exit_rules(_, _)
Bt_parse_exit_rules(rules, k) ==
    IF k = 0 THEN [raised |-> "", parsed |-> <<>>]
    ELSE LET before == Bt_parse_exit_rules(rules, k - 1)
         IN  IF ~({"left", "right"} \subseteq DOMAIN rules[k]) THEN before
             ELSE [raised |-> "", parsed |-> before.parsed \o Bt_lambda(rules[k])]

\* one lambda called on a window: df[l] raises KeyError for an absent column,
\* .iloc[-2] raises IndexError on a window of one row
Bt_call(f, df) ==
    LET n     == Len(df)
        cross == f.rtype \in {"crossover", "crossunder"}
    IN  IF f.l \notin DOMAIN df[n] THEN [raised |-> "KeyError", value |-> FALSE]
        ELSE IF cross /\ n < 2 THEN [raised |-> "IndexError", value |-> FALSE]
        ELSE IF f.r \notin DOMAIN df[n] THEN [raised |-> "KeyError", value |-> FALSE]
        ELSE [raised |-> "",
              value |->
                 CASE f.rtype = ">" -> Gt(df[n][f.l], df[n][f.r])
                   [] f.rtype = "<" -> Lt(df[n][f.l], df[n][f.r])
                   [] f.rtype = "crossover" ->
                          /\ Lt(df[n - 1][f.l], df[n - 1][f.r])
                          /\ Gt(df[n][f.l], df[n][f.r])
                   [] f.rtype = "crossunder" ->
                          /\ Gt(df[n - 1][f.l], df[n - 1][f.r])
                          /\ Lt(df[n][f.l], df[n][f.r])]

\* one call: a function and its arguments
InitBacktester ==
    /\ EngineIdle
    /\ pc = "call"
    /\ \/ \E e \in SeqsUpTo(MetricsEquityVals, MaxPoints),
             t \in SeqsUpTo(TradeVals, MaxTrades), c \in StartingCapitalVals :
              arg = [fn |-> "_compute_metrics", equity |-> e, trades |-> t, capital |-> c]
       \/ \E fn \in {"_parse_entry_rules", "_parse_exit_rules"},
             rules \in BtRuleLists, df \in RuleFrames :
              arg = [fn |-> fn, rules |-> rules, df |-> df]
    /\ ret = NoRet

Call_bt_compute_metrics ==
    /\ pc = "call"
    /\ arg.fn = "_compute_metrics"
    /\ ret' = [fn |-> arg.fn,
               value |-> Bt_compute_metrics(arg.equity, arg.trades, arg.capital)]
    /\ pc' = "returned"
    /\ UNCHANGED <<signal_vars, cfg, slippage_pct, commission_per_trade, columns, adx_filled, nbars, i, row,
                   position, trades, capital_start, equity, metrics, arg>>

\* the rules are parsed and every lambda built is called on the window
Call_bt_parse_rules ==
    /\ pc = "call"
    /\ arg.fn \in {"_parse_entry_rules", "_parse_exit_rules"}
    /\ LET res == IF arg.fn = "_parse_entry_rules"
                  THEN Bt_parse_entry_rules(arg.rules, Len(arg.rules))
                  ELSE Bt_parse_exit_rules(arg.rules, Len(arg.rules))
       IN  ret' = [fn |-> arg.fn, raised |-> res.raised, parsed |-> res.parsed,
                   values |-> [k \in 1..Len(res.parsed) |-> Bt_call(res.parsed[k], arg.df)]]
    /\ pc' = "returned"
    /\ UNCHANGED <<signal_vars, cfg, slippage_pct, commission_per_trade, columns, adx_filled, nbars, i, row,
                   position, trades, capital_start, equity, metrics, arg>>

NextBacktester == Call_bt_compute_metrics \/ Call_bt_parse_rules

SpecBacktester == InitBacktester /\ [][NextBacktester]_vars

----------------------------------------------------------------------------
(* Pro engine: run_backtest_pro of src/core/backtester_pro_engine.py        *)
(* trades holds the closed Trade objects, equity the list of line 155; row  *)
(* is df.iloc[i].  The rules of the strategies below compare values of the  *)
(* current bar, so the frame handed to the rule engine is that bar.         *)

\* line 55: the first index of the loop
Pro_first == 50

ProBase == {"open", "high", "low", "close", "ema20"}

ProColumnSets == {ProBase, ProBase \cup {"atr14"}, ProBase \cup {"sl", "tp"}}

\* the rows of a frame with columns cols; a level of 0 in sl or tp is falsy
ProRows(cols) ==
    { [c \in cols |->
            CASE c = "open"  -> o
              [] c = "high"  -> R(12)
              [] c = "low"   -> R(8)
              [] c = "close" -> cl
              [] c = "ema20" -> R(10)
              [] c = "atr14" -> One
              [] c = "sl"    -> lv.sl
              [] c = "tp"    -> lv.tp ] :
        o \in {R(8), R(10)}, cl \in {R(9), R(11)},
        lv \in {[sl |-> Zero, tp |-> Zero], [sl |-> R(9), tp |-> Zero],
                [sl |-> Zero, tp |-> R(11)]} }

AllOf(l, op, r) == [all |-> <<Cond(Col(l), op, Col(r))>>]

AnyOf(l, op, r) == [any |-> <<Cond(Col(l), op, Col(r))>>]

ProConfigs ==
    [risk : [capital : CapitalVals, risk_per_trade_pct : RiskPctVals],
     entry : [long : {<<AllOf("close", ">", "ema20")>>},
              short : {<<>>, <<AllOf("close", "<", "ema20")>>}],
     exit : [long : {<<AnyOf("close", "<", "ema20")>>},
             short : {<<AnyOf("close", ">", "ema20")>>}],
     indicators : {<<[name |-> "ema20", type |-> "ema"]>>,
                   <<[name |-> "ema20", type |-> "ema"],
                     [name |-> "atr14", type |-> "atr"]>>}]

\* line 49
Pro_risk_pct(c) == Div(c.risk.risk_per_trade_pct, R(100))

\* the variable capital: cfg.risk.capital until line 155 has run, the value
\* line 155 appended last afterwards
Pro_capital == IF equity = <<>> THEN cfg.risk.capital ELSE equity[Len(equity)]

\* `if x and r["low"] <= x <= r["high"]` for x = r.get(col, None)
Pro_level_hit(r, col) ==
    /\ col \in DOMAIN r
    /\ r[col] # Zero
    /\ Le(r["low"], r[col])
    /\ Le(r[col], r["high"])

\* lines 63-97: the reason of the exit found on this bar, "" for none,
\* "raise" when the exit rules raise
Pro_exit_reason(p, r, c) ==
    IF Pro_level_hit(r, "sl") THEN "SL hit"
    ELSE IF Pro_level_hit(r, "tp") THEN "TP hit"
    ELSE LET e == IF p.direction = "long" THEN check_exit_long(<<r>>, 0, c.exit)
                  ELSE check_exit_short(<<r>>, 0, c.exit)
         IN  IF e.raised # "" THEN "raise"
             ELSE IF e.value THEN "Exit rule" ELSE ""

\* lines 69-71 and 100-107: the Trade object as it is appended to trades
Pro_closed(p, idx, next_row, reason, c) ==
    LET exit_price == next_row["open"]
        pnl == IF p.direction = "long"
               THEN Mul(Sub(exit_price, p.entry_price), p.size)
               ELSE Mul(Sub(p.entry_price, exit_price), p.size)
    IN  [p EXCEPT !.exit_idx = <<idx + 1>>,
                  !.exit_price = <<exit_price>>,
                  !.reason = reason,
                  !.pnl = pnl,
                  !.rr = IF Ne(p.entry_price, Zero)
                         THEN NpDiv(pnl, AbsR(Mul(p.entry_price, Pro_risk_pct(c))))
                         ELSE p.rr]

\* lines 121-126: the column of the last indicator whose type contains
\* "atr", <<>> for None
RECURSIVE Pro_atr_col(_, _)
Pro_atr_col(inds, k) ==
    IF k = 0 THEN <<>>
    ELSE IF inds[k].type = "atr" THEN <<inds[k].name>>
    ELSE Pro_atr_col(inds, k - 1)

\* lines 118-133 and 137-152: the Trade opened at idx with capital cap
Pro_opened(side, idx, r, next_row, cap, c) ==
    LET entry_price == next_row["open"]
        risk_amount == Mul(cap, Pro_risk_pct(c))
        atr_col     == Pro_atr_col(c.indicators, Len(c.indicators))
        sized_by_atr ==
            /\ atr_col # <<>>
            /\ atr_col[1] \in DOMAIN r
            /\ Gt(r[atr_col[1]], Zero)
        stop == IF side = "long" THEN Sub(entry_price, Mul(R(2), r[atr_col[1]]))
                ELSE Add(entry_price, Mul(R(2), r[atr_col[1]]))
        size == IF sized_by_atr
                THEN NpDiv(risk_amount, IF side = "long" THEN Sub(entry_price, stop)
                                        ELSE Sub(stop, entry_price))
                ELSE NpDiv(risk_amount, entry_price)
    IN  [direction |-> side, entry_idx |-> idx + 1, entry_price |-> entry_price,
         size |-> size, exit_idx |-> <<>>, exit_price |-> <<>>, pnl |-> Zero,
         rr |-> Zero, reason |-> ""]

\* lines 47-53; the frame has Pro_first + nbars + 1 rows
InitPro ==
    /\ NoSignals
    /\ cfg \in ProConfigs
    /\ columns \in ProColumnSets
    /\ nbars \in 0..MaxBars
    /\ i = Pro_first
    /\ row \in ProRows(columns)
    /\ pc = "loop"
    /\ position = <<>>
    /\ trades = <<>>
    /\ equity = <<>>
    /\ metrics = NoMetrics
    /\ arg = NoArg
    /\ ret = NoRet
    /\ slippage_pct = Zero
    /\ commission_per_trade = Zero
    /\ adx_filled = FALSE
    /\ capital_start = Zero

\* lines 99-155: the rest of an iteration whose exit logic found the exit
\* reason (closes: an exit was found; closed: the Trade as it is appended)
\* and whose entry rules gave long and short
Pro_iteration(next_row, closes, closed, capital, long, short) ==
    /\ trades' = IF closes THEN Append(trades, closed) ELSE trades
    /\ IF (position = <<>> \/ closes)
          /\ (long.raised # "" \/ (~long.value /\ short.raised # ""))
       THEN /\ pc' = "raised"
            /\ UNCHANGED <<i, row, position, equity>>
       ELSE /\ pc' = pc
            /\ position' =
                   IF position # <<>> /\ ~closes THEN position
                   ELSE IF long.value
                   THEN <<Pro_opened("long", i, row, next_row, capital, cfg)>>
                   ELSE IF short.value
                   THEN <<Pro_opened("short", i, row, next_row, capital, cfg)>>
                   ELSE <<>>
            /\ equity' = Append(equity, capital)
            /\ i' = i + 1
            /\ row' = next_row

\* lines 62-111: the exit logic of an iteration with an open position
Pro_exit(next_row, reason, closed) ==
    IF reason = "raise"
    THEN /\ pc' = "raised"
         /\ UNCHANGED <<i, row, position, equity, trades>>
    ELSE Pro_iteration(next_row, reason # "", closed,
                       IF reason # "" THEN Add(Pro_capital, closed.pnl) ELSE Pro_capital,
                       check_entry_long(<<row>>, 0, cfg.entry),
                       check_entry_short(<<row>>, 0, cfg.entry))

\* lines 55-155: one iteration of the loop
Pro_Bar ==
    /\ pc = "loop"
    /\ i < Pro_first + nbars
    /\ \E next_row \in ProRows(columns) :
           IF position # <<>>
           THEN Pro_exit(next_row, Pro_exit_reason(position[1], row, cfg),
                         Pro_closed(position[1], i, next_row,
                                    Pro_exit_reason(position[1], row, cfg), cfg))
           ELSE Pro_iteration(next_row, FALSE, <<>>, Pro_capital,
                              check_entry_long(<<row>>, 0, cfg.entry),
                              check_entry_short(<<row>>, 0, cfg.entry))
    /\ UNCHANGED <<signal_vars, cfg, columns, nbars, metrics, slippage_pct, commission_per_trade,
                   adx_filled, capital_start, arg, ret>>

\* lines 157-180: the result
Pro_BuildResults ==
    /\ pc = "loop"
    /\ i = Pro_first + nbars
    /\ ret' = [fn |-> "run_backtest_pro", equity |-> equity,
               num_trades |-> Len(trades), final_capital |-> Pro_capital]
    /\ pc' = "done"
    /\ UNCHANGED <<signal_vars, cfg, columns, nbars, i, row, position, trades, slippage_pct,
                   commission_per_trade, adx_filled, capital_start, equity, metrics, arg>>

NextPro == Pro_Bar \/ Pro_BuildResults

SpecPro == InitPro /\ [][NextPro]_vars

----------------------------------------------------------------------------
(* Signal engine: generate_signals of src/core/signal_engine.py             *)
(* position is the list position; i is the index of the next bar.  The     *)
(* outcome of any(evaluate_rule_group(df, i, g) for g in groups) on a bar   *)
(* is an input: true, false, or an exception of the rule evaluation.       *)

RuleOutcomes == {"true", "false", "raise"}

\* the group lists of the configuration: empty, or holding groups
SignalGroupLists == {<<>>, <<"group">>}

\* [0] * n
Zeros(n) == [k \in 1..n |-> 0]

\* line 36: the exit groups are evaluated on this bar
Sig_checks_exit(pos, exit_groups) == pos # 0 /\ exit_groups # <<>>

\* line 44 without the test of current_pos
Sig_checks_entry_InPosition(pos, entry_groups) == entry_groups # <<>>

\* line 44: the entry groups are evaluated on this bar
Sig_checks_entry(pos, entry_groups) == pos = 0 /\ entry_groups # <<>>

\* lines 20-32
InitSignals ==
    /\ cfg = [entry_rules |-> <<>>, exit_rules |-> <<>>]
    /\ arg \in [fn : {"generate_signals"}, entry_rules : SignalGroupLists,
                exit_rules : SignalGroupLists]
    /\ nbars \in 0..MaxBars
    /\ entry_signal = Zeros(nbars)
    /\ exit_signal = Zeros(nbars)
    /\ position = Zeros(nbars)
    /\ current_pos = 0
    /\ i = 0
    /\ pc = "loop"
    /\ row = NoRow
    /\ columns = {}
    /\ trades = <<>>
    /\ equity = <<>>
    /\ metrics = NoMetrics
    /\ ret = NoRet
    /\ slippage_pct = Zero
    /\ commission_per_trade = Zero
    /\ adx_filled = FALSE
    /\ capital_start = Zero

\* lines 34-51: one iteration of the loop; an exception of the entry
\* evaluation leaves the assignments of the exit step in place
Sig_Bar ==
    /\ pc = "loop"
    /\ i < nbars
    /\ \E exit_out, entry_out \in RuleOutcomes :
        LET exits  == Sig_checks_exit(current_pos, arg.exit_rules)
            pos    == IF exits /\ exit_out = "true" THEN 0 ELSE current_pos
            enters == Sig_checks_entry(pos, arg.entry_rules)
        IN  IF exits /\ exit_out = "raise"
            THEN /\ pc' = "raised"
                 /\ UNCHANGED <<i, entry_signal, exit_signal, position, current_pos>>
            ELSE /\ exit_signal' =
                        IF exits
                        THEN [exit_signal EXCEPT ![i + 1] = IF exit_out = "true" THEN 1 ELSE 0]
                        ELSE exit_signal
                 /\ IF enters /\ entry_out = "raise"
                    THEN /\ pc' = "raised"
                         /\ current_pos' = pos
                         /\ UNCHANGED <<i, entry_signal, position>>
                    ELSE /\ pc' = pc
                         /\ entry_signal' =
                                IF enters
                                THEN [entry_signal EXCEPT
                                          ![i + 1] = IF entry_out = "true" THEN 1 ELSE 0]
                                ELSE entry_signal
                         /\ current_pos' = IF enters /\ entry_out = "true" THEN 1 ELSE pos
                         /\ position' = [position EXCEPT ![i + 1] = current_pos']
                         /\ i' = i + 1
    /\ UNCHANGED <<cfg, slippage_pct, commission_per_trade, columns, adx_filled, nbars, row,
                   trades, capital_start, equity, metrics, arg, ret>>

\* lines 53-56: the three lists become columns of the frame returned
Sig_Return ==
    /\ pc = "loop"
    /\ i = nbars
    /\ ret' = [fn |-> arg.fn, entry_signal |-> entry_signal, exit_signal |-> exit_signal,
               position |-> position]
    /\ pc' = "done"
    /\ UNCHANGED <<signal_vars, cfg, slippage_pct, commission_per_trade, columns, adx_filled,
                   nbars, i, row, position, trades, capital_start, equity, metrics, arg>>

NextSignals == Sig_Bar \/ Sig_Return

SpecSignals == InitSignals /\ [][NextSignals]_vars

----------------------------------------------------------------------------
(* Properties of the V4 engine *)

LoopOver == pc \in {"build", "raised", "done"}

\* the trades closed by the exit step of the current iteration
ClosedThisBar == {k \in 1..Len(trades) : pc = "entry" /\ trades[k].exit_time = i}

V4_gross(t) ==
    IF t.direction = "long"
    THEN Mul(Sub(t.exit_price, t.entry_price), t.size)
    ELSE Mul(Sub(t.entry_price, t.exit_price), t.size)

RECURSIVE SumGross(_)
SumGross(ts) ==
    IF ts = <<>> THEN Zero
    ELSE Add(SumGross(SubSeq(ts, 1, Len(ts) - 1)), V4_gross(ts[Len(ts)]))

\* C1: at most one position is open at every bar; a Position object is
\* created only by the entry step of a bar, and only when no position is
\* open after the exit step of that bar (an open position is never replaced)
C1_SinglePosition ==
    [][ /\ Len(position') <= 1
        /\ (position' # <<>> /\ position' # position)
              => (pc = "entry" /\ position = <<>>) ]_vars

C1_Witness == position # <<>> /\ trades # <<>> /\ position[1].direction # trades[1].direction

\* C2: after every close the running capital is the initial capital plus
\* the pnl of the ledger trades, and it changes on no other step
C2_CapitalIsLedgerSum ==
    pc # "setup" => capital_start = Add(cfg.capital, SumPnl(trades))

C2_Witness ==
    /\ Len(trades) >= 2
    /\ position # <<>>
    /\ \A k \in 1..Len(trades) : trades[k].pnl # Zero

\* C3: a position still open at the final bar is closed on it with reason
\* "forced", so no position is open when the loop has ended
C3_ForcedCloseAtEnd == LoopOver => position = <<>>

\* C4: no position is opened on the bar on which a position was closed
C4_NoSameBarReentry ==
    position # <<>> =>
        \A k \in 1..Len(trades) : trades[k].exit_time # position[1].entry_time

\* C5: a position carried into a bar on which the exit rule set of its side
\* is true is closed on that bar; after the exit step no such position is open
C5_ExitRuleCloses ==
    (pc = "entry" /\ position # <<>>) =>
        ~V4_check_conditions(row, IF position[1].direction = "long"
                                  THEN cfg.exit_long ELSE cfg.exit_short)

\* C7: every opened position has size > 0
C7_SizePositive == position # <<>> => Gt(position[1].size, Zero)

\* C8: size = riskAmount / entryPrice when the stop distance is zero and
\* riskAmount / stopDistance otherwise, riskAmount = capital x riskPct / 100
\* (the capital cannot change while the position is open)
C8_SizeFormula ==
    position # <<>> =>
        LET p             == position[1]
            risk_amount   == Mul(capital_start, Div(cfg.risk_per_trade_pct, R(100)))
            stop_distance == AbsR(Sub(p.entry_price, p.sl))
        IN  p.size = IF stop_distance = Zero
                     THEN Div(risk_amount, p.entry_price)
                     ELSE Div(risk_amount, stop_distance)

\* C9: a long closed on a bar fills at close x (1 - slippage_pct), a short at
\* close x (1 + slippage_pct); the fill is never better than the bar close
C9_SlippageAgainstTrader ==
    \A k \in ClosedThisBar :
        LET t     == trades[k]
            close == row["close"]
        IN  IF t.direction = "long"
            THEN /\ t.exit_price = Mul(close, Sub(One, slippage_pct))
                 /\ Le(t.exit_price, close)
            ELSE /\ t.exit_price = Mul(close, Add(One, slippage_pct))
                 /\ Ge(t.exit_price, close)

C9_Witness ==
    /\ Gt(slippage_pct, Zero)
    /\ \E k \in ClosedThisBar : trades[k].direction = "short"
    /\ \E k \in 1..Len(trades) : trades[k].direction = "long"

\* C10: the pnl of every ledger trade is its gross pnl minus the commission,
\* whatever its size, and the capital has been charged Len(trades) commissions
C10_CommissionOncePerTrade ==
    pc # "setup" =>
        /\ \A k \in 1..Len(trades) :
              trades[k].pnl = Sub(V4_gross(trades[k]), commission_per_trade)
        /\ capital_start = Sub(Add(cfg.capital, SumGross(trades)),
                               Mul(R(Len(trades)), commission_per_trade))

C10_Witness ==
    /\ Gt(commission_per_trade, Zero)
    /\ Len(trades) >= 2
    /\ position # <<>>
    /\ \E k \in 1..Len(trades) : trades[k].size # One

\* C11: when the loop is over the equity list holds one value per bar
C11_EquityPerBar == LoopOver => Len(equity) = nbars

\* the call has ended, by returning or by raising
V4_Ended == pc \in {"raised", "done"}

\* C12: a run that closed no trade ends by returning the zero-trade result
C12_ZeroTradeResult ==
    (V4_Ended /\ trades = <<>>) =>
        (pc = "done" /\ metrics.num_trades = 0 /\ metrics.grade = "D")

\* C13: with both entry lists empty no position is opened and the run returns
\* num_trades 0, grade "D" and total_return_pct 0
C13_NoEntryRules ==
    (cfg.entry_long = <<>> /\ cfg.entry_short = <<>>) =>
        /\ position = <<>>
        /\ trades = <<>>
        /\ V4_Ended => /\ pc = "done"
                       /\ metrics.num_trades = 0
                       /\ metrics.grade = "D"
                       /\ metrics.total_return_pct = Zero

\* the long and the short entry list both hold on the current bar of a flat
\* book in a trend
BothEntriesHold ==
    /\ pc = "entry"
    /\ position = <<>>
    /\ Regime(row) = "trend"
    /\ V4_check_conditions(row, cfg.entry_long)
    /\ V4_check_conditions(row, cfg.entry_short)

Opens == position' # position /\ position' # <<>>

\* C15: a position opens only on a bar whose regime is "trend", every trade of
\* the ledger carries the regime of its entry bar, which is "trend", and bars
\* without an adx column open no position
C15_TrendOnly ==
    /\ [](/\ \A k \in 1..Len(trades) : trades[k].regime = "trend"
          /\ position # <<>> => position[1].entry_regime = "trend"
          /\ adx_filled => (position = <<>> /\ trades = <<>>))
    /\ [][ /\ Opens => /\ pc = "entry"
                       /\ Regime(row) = "trend"
                       /\ position'[1].entry_regime = Regime(row)
           /\ Len(trades') > Len(trades) =>
                  trades'[Len(trades')].regime = position[1].entry_regime ]_vars

\* a trade entered in a trend is closed on a "chop" bar and keeps "trend"
C15_Witness ==
    /\ pc = "entry"
    /\ ClosedThisBar # {}
    /\ Regime(row) = "chop"
    /\ \A k \in ClosedThisBar : trades[k].regime = "trend"

\* C16: the run leaves the columns of the caller's bars and the strategy
\* config as they were
C16_InputsUnchanged == [][columns' = columns /\ cfg' = cfg]_vars

\* C28: exit times of consecutive ledger trades strictly increase, and a trade
\* is entered no earlier than the previous trade was closed
C28_LedgerChronological ==
    \A k \in 1..(Len(trades) - 1) :
        /\ trades[k].exit_time < trades[k + 1].exit_time
        /\ trades[k + 1].entry_time >= trades[k].exit_time

\* two trades, the second entered on the bar that closed the first
C28_Witness ==
    /\ Len(trades) >= 2
    /\ trades[2].entry_time = trades[1].exit_time

\* C29: the exit check of a bar precedes its entry check and sees only the
\* position carried in from an earlier bar, so every trade is closed on a
\* later bar than it was entered
C29_ExitBeforeEntry ==
    /\ [](/\ (pc = "exit" /\ position # <<>>) => position[1].entry_time <= i
          /\ (pc = "entry" /\ position # <<>>) => position[1].entry_time < i
          /\ \A k \in 1..Len(trades) : trades[k].exit_time > trades[k].entry_time)
    /\ [][ /\ Opens => (pc = "entry" /\ position'[1].entry_time = i)
           /\ Len(trades') > Len(trades) =>
                  (pc = "exit" /\ position # <<>> /\ position[1].entry_time < i') ]_vars

\* a position opened on one bar is closed by the exit check of the next bar
C29_Witness ==
    /\ pc = "entry"
    /\ \E k \in ClosedThisBar : trades[k].entry_time = i - 1

\* C25: bars without the ATR column open no position
C25_MissingAtrRejected == "atr14" \notin columns => position = <<>>

----------------------------------------------------------------------------
(* Properties of the mvp-fixed adapter *)

\* C6: when the stop-loss and the take-profit condition of the open position
\* both hold on the bar that closes it, the trade is recorded with reason "SL"
C6_StopBeforeTarget ==
    [][ (/\ position # <<>>
         /\ Len(trades') = Len(trades) + 1
         /\ Fx_sl_hit(position[1], row'["close"])
         /\ Fx_tp_hit(position[1], row'["close"]))
           => trades'[Len(trades')].exit_reason = "SL" ]_vars

\* C30: no position is open when the run of the mvp-fixed adapter ends
C30_NoDanglingPosition == pc = "done" => position = <<>>

\* the ledger's equity dips below the initial capital or below an earlier
\* equity value
FxDips ==
    LET eq == Fx_equity(trades, cfg.capital)
    IN  \E k \in 1..Len(trades) :
            \/ Lt(eq[k], cfg.capital)
            \/ \E j \in 1..(k - 1) : Lt(eq[k], eq[j])

\* C31: a ledger whose equity dips below the initial capital or an earlier
\* equity value is reported with a strictly negative max_drawdown_pct
C31_DrawdownFromInitialCapital ==
    (pc = "done" /\ FxDips) => Lt(metrics.max_drawdown_pct, Zero)

----------------------------------------------------------------------------
(* Properties of the metrics helpers *)

Returned(fn) == pc = "returned" /\ arg.fn = fn

HasWin(ts) == \E k \in 1..Len(ts) : Gt(ts[k].pnl, Zero)

HasLoss(ts) == \E k \in 1..Len(ts) : Lt(ts[k].pnl, Zero)

\* C17: profit_factor returns +inf exactly when the ledger has a trade with
\* pnl > 0 and none with pnl < 0, and returns 0 exactly when it has no trade
\* with pnl > 0
C17_ProfitFactorEnds ==
    Returned("profit_factor") =>
        /\ ret.value = Inf <=> (HasWin(arg.trades) /\ ~HasLoss(arg.trades))
        /\ ret.value = Zero <=> ~HasWin(arg.trades)

C17_Witness ==
    /\ Returned("profit_factor")
    /\ ret.value = Inf
    /\ \E k \in 1..Len(arg.trades) : arg.trades[k].pnl = Zero

\* a point of the series lies below the running maximum of the points up to it
Dips(eq) == \E k \in 1..Len(eq) : Lt(eq[k], Cummax(eq, k))

\* C18: max_drawdown returns a value <= 0, and 0 exactly when no point of the
\* series is below the running maximum
C18_DrawdownSign ==
    Returned("max_drawdown") =>
        /\ Le(ret.value, Zero)
        /\ ret.value = Zero <=> ~Dips(arg.equity)

GradeRank(g) == CASE g = "A" -> 4 [] g = "B" -> 3 [] g = "C" -> 2 [] OTHER -> 1

\* what a result reports: trades count, profit factor, max drawdown and grade
Outcome(m) ==
    [num |-> m.num_trades, pf |-> m.profit_factor, md |-> m.max_drawdown_pct,
     grade |-> m.grade]

\* what compute_metrics reports, for every call
GradeOutcomes ==
    UNION {UNION {{Outcome(compute_metrics(e, t, c)) : c \in StartingCapitalVals} :
                  e \in SeqsUpTo(MetricsEquityVals, MaxPoints)} :
           t \in SeqsUpTo(TradeVals, MaxTrades)}

\* the second outcome has the trades count of the first, a profit factor at
\* least as high and a max drawdown at least as close to 0
NotWorse(first, second) ==
    /\ second.num = first.num
    /\ Ge(second.pf, first.pf)
    /\ Ge(second.md, first.md)

ThisOutcome == Outcome(ret.value)

\* C19: of two results with the same trades count, the one whose profit factor
\* and max drawdown are not worse never has the lower grade
C19_GradeMonotonic ==
    Returned("compute_metrics") =>
        \A o \in GradeOutcomes :
            /\ NotWorse(o, ThisOutcome) => GradeRank(ThisOutcome.grade) >= GradeRank(o.grade)
            /\ NotWorse(ThisOutcome, o) => GradeRank(o.grade) >= GradeRank(ThisOutcome.grade)

\* a result graded "B" for its drawdown of -20%, with the profit factor of a
\* result graded "A"
C19_Witness ==
    /\ Returned("compute_metrics")
    /\ ret.value.grade = "B"
    /\ ret.value.max_drawdown_pct = R(-20)
    /\ \E o \in GradeOutcomes :
           o.grade = "A" /\ o.pf = ret.value.profit_factor /\ NotWorse(ThisOutcome, o)

----------------------------------------------------------------------------
(* Properties of the rule engine *)

\* the condition's columns are columns of the frame
ColumnsPresent ==
    ~KeyMissing(arg.df[1], arg.cond.left) /\ ~KeyMissing(arg.df[1], arg.cond.right)

\* an operand of the condition resolves to NaN on the current bar
NaNOperand ==
    \/ IsNaN(get_value(arg.df[arg.idx + 1], arg.cond.left))
    \/ IsNaN(get_value(arg.df[arg.idx + 1], arg.cond.right))

\* C20: with a NaN operand eval_condition returns false and does not raise,
\* for each of >, <, >=, <=, ==, !=, crosses_above and crosses_below
C20_NaNIsFalse ==
    (/\ Returned("eval_condition")
     /\ arg.cond.op \in OP_MAP \cup {"crosses_above", "crosses_below"}
     /\ ColumnsPresent
     /\ NaNOperand) => (ret.raised = "" /\ ret.value = FALSE)

\* C22: at bar index 0 eval_condition returns false for crosses_above and for
\* crosses_below, whatever the operand values of that bar
C22_NoCrossAtFirstBar ==
    (/\ Returned("eval_condition")
     /\ arg.idx = 0
     /\ arg.cond.op \in {"crosses_above", "crosses_below"}
     /\ ColumnsPresent) => (ret.raised = "" /\ ret.value = FALSE)

\* at index 0 of a frame of two bars the left operand is above the right one
\* on the first bar and was not on the last bar
C22_Witness ==
    /\ Returned("eval_condition")
    /\ arg.idx = 0
    /\ arg.cond.op = "crosses_above"
    /\ ColumnsPresent
    /\ Len(arg.df) = 2
    /\ Gt(get_value(arg.df[1], arg.cond.left), get_value(arg.df[1], arg.cond.right))
    /\ Le(get_value(arg.df[2], arg.cond.left), get_value(arg.df[2], arg.cond.right))
    /\ ret.value = FALSE

\* the conditions of a group, none for a group without "all" and "any"
GroupConditions(g) ==
    IF "all" \in DOMAIN g THEN g.all ELSE IF "any" \in DOMAIN g THEN g.any ELSE <<>>

\* some condition of some group of the rule set holds on the bar
SomeConditionHolds(df, idx, groups) ==
    \E g \in 1..Len(groups) :
        \E k \in 1..Len(GroupConditions(groups[g])) :
            LET e == eval_condition(df, idx, GroupConditions(groups[g])[k])
            IN  e.raised = "" /\ e.value

\* C36: check_entry_long, check_entry_short, check_exit_long and
\* check_exit_short return true only when a condition of some group of the
\* rule set they read holds on the bar
C36_FiresOnlyOnSatisfiedCondition ==
    (pc = "returned" /\ arg.fn \in RuleSetFns /\ ret.raised = "" /\ ret.value) =>
        SomeConditionHolds(arg.df, arg.idx, arg.cfg[RuleSetSide(arg.fn)])

----------------------------------------------------------------------------
(* Properties of _check_conditions *)

\* an operand of the condition is a column the row does not have
AbsentOperand(r, c) ==
    \/ c.left.kind = "col" /\ c.left.name \notin DOMAIN r
    \/ c.right.kind = "col" /\ c.right.name \notin DOMAIN r

\* an operand of the condition is a NaN value of the row
NaNOperandOf(r, c) ==
    \/ c.left.kind = "col" /\ c.left.name \in DOMAIN r /\ IsNaN(r[c.left.name])
    \/ c.right.kind = "col" /\ c.right.name \in DOMAIN r /\ IsNaN(r[c.right.name])

\* C21: _check_conditions returns false when a condition of the list has a
\* NaN operand
C21_NaNBlocksEntry ==
    (/\ Returned("_check_conditions")
     /\ \E k \in 1..Len(arg.conds) : NaNOperandOf(arg.row, arg.conds[k]))
        => ret.value = FALSE

\* C23: a condition whose operator is not a supported comparator is rejected
\* with a configuration error
C23_UnknownOperatorRejected ==
    (/\ Returned("_check_conditions")
     /\ \E k \in 1..Len(arg.conds) : arg.conds[k].op \notin V4_ops)
        => ret.raised = "ConfigError"

\* C24: a condition that names a column absent from the bar fails with a
\* configuration error
C24_AbsentColumnRejected ==
    (/\ Returned("_check_conditions")
     /\ \E k \in 1..Len(arg.conds) : AbsentOperand(arg.row, arg.conds[k]))
        => ret.raised = "ConfigError"

----------------------------------------------------------------------------
(* Properties of the Monte Carlo step *)

\* C26: a call with an explicit seed is accepted, and its two runs return the
\* same Monte Carlo report
C26_SeededRunsAgree ==
    (Returned("monte_carlo") /\ arg.seed # <<>>) =>
        (ret.raised = "" /\ ret.first = ret.second)

----------------------------------------------------------------------------
(* Properties of the strategy parser *)

\* C27: parsing the rule structure a parse produced raises nothing and yields
\* the same groups with the same conditions in the same order
C27_ParseRoundTrip ==
    pc = "reparsed" =>
        /\ ret.again.raised = ""
        /\ ret.again.entry = ret.cfg.entry
        /\ ret.again.exit = ret.cfg.exit

\* the conditions of the comparison rules of a rule list are the conditions
\* of a group of the parsed list
KeepsComparisons(rule_list, parsed) ==
    (\E k \in 1..Len(rule_list) : IsComparison(rule_list[k])) =>
        \E g \in 1..Len(parsed) :
            /\ "all" \in DOMAIN parsed[g]
            /\ parsed[g].all = Conditions(rule_list, Len(rule_list))

\* C35: the comparison rules of exit.long and of exit.short are conditions of
\* the parsed cfg.exit.long and cfg.exit.short, also when the list holds
\* atr_sl / atr_tp rules
C35_ExitComparisonsKept ==
    (pc \in {"parsed", "reparsed"} /\ ret.cfg.raised = "") =>
        /\ KeepsComparisons(arg.data.exit.long, ret.cfg.exit.long)
        /\ KeepsComparisons(arg.data.exit.short, ret.cfg.exit.short)

----------------------------------------------------------------------------
(* Properties of the simple backtester *)

\* C32: for a non-empty ledger _compute_metrics reports a profit_factor of
\* +inf only when the ledger has a trade with pnl > 0 and none with pnl < 0,
\* and reports 0 when it has no trade with pnl > 0
C32_SimpleProfitFactorEnds ==
    (Returned("_compute_metrics") /\ arg.trades # <<>>) =>
        /\ ret.value.profit_factor = Inf => (HasWin(arg.trades) /\ ~HasLoss(arg.trades))
        /\ ~HasWin(arg.trades) => ret.value.profit_factor = Zero

\* the definition of a cross on the last two rows of a window
CrossDefinition(rtype, df, l, r) ==
    LET prev == df[Len(df) - 1]
        cur  == df[Len(df)]
    IN  IF rtype = "crossover"
        THEN Le(prev[l], prev[r]) /\ Gt(cur[l], cur[r])
        ELSE Ge(prev[l], prev[r]) /\ Lt(cur[l], cur[r])

\* eval_condition on the last row of the window for the same cross
CrossByRuleEngine(rtype, df, l, r) ==
    eval_condition(df, Len(df) - 1,
                   Cond(Col(l), IF rtype = "crossover" THEN "crosses_above"
                                ELSE "crosses_below", Col(r)))

\* C33: on a window of two or more rows that has both columns, every
\* crossover and crossunder lambda returns what the definition
\* prev(l) <= prev(r) and cur(l) > cur(r) (mirrored for crossunder) gives,
\* which is also what eval_condition returns
C33_CrossMatchesDefinition ==
    (/\ pc = "returned"
     /\ arg.fn \in {"_parse_entry_rules", "_parse_exit_rules"}
     /\ Len(arg.df) >= 2) =>
        \A k \in 1..Len(ret.parsed) :
            LET f == ret.parsed[k]
            IN  (/\ f.rtype \in {"crossover", "crossunder"}
                 /\ {f.l, f.r} \subseteq DOMAIN arg.df[1]) =>
                    /\ ret.values[k].raised = ""
                    /\ ret.values[k].value = CrossDefinition(f.rtype, arg.df, f.l, f.r)
                    /\ ret.values[k].value =
                           CrossByRuleEngine(f.rtype, arg.df, f.l, f.r).value

----------------------------------------------------------------------------
(* Properties of the pro engine *)

\* the capital when the trade was opened: the value appended to equity by
\* the iteration before bar entry_idx
CapitalAtEntry(t) == equity[t.entry_idx - Pro_first]

\* C34: the rr of every closed trade is its pnl divided by the amount risked
\* at its entry, capital at entry x risk_per_trade_pct / 100
C34_RrIsPnlOverRisk ==
    \A k \in 1..Len(trades) :
        trades[k].rr = NpDiv(trades[k].pnl, Mul(CapitalAtEntry(trades[k]), Pro_risk_pct(cfg)))

----------------------------------------------------------------------------
(* Properties of the signal engine *)

\* the position carried into bar k (bars count from 1 here)
Carried(k) == IF k = 1 THEN 0 ELSE position[k - 1]

\* the position after the exit step of bar k
AfterExit(k) == IF exit_signal[k] = 1 THEN 0 ELSE Carried(k)

\* C37: on every bar the loop has finished, position is 0 or 1, an exit
\* signal needs a carried position of 1, an entry signal needs a position of
\* 0 after the exit step, and position changes by entry_signal - exit_signal
C37_SignalsFollowPosition ==
    \A k \in 1..i :
        /\ position[k] \in {0, 1}
        /\ exit_signal[k] = 1 => Carried(k) = 1
        /\ entry_signal[k] = 1 => AfterExit(k) = 0
        /\ position[k] - Carried(k) = entry_signal[k] - exit_signal[k]

\* the returned frame has a bar that exits and enters again, after a bar
\* that entered
C37_Witness ==
    /\ pc = "done"
    /\ \E k \in 2..nbars :
           /\ ret.entry_signal[k - 1] = 1
           /\ ret.exit_signal[k] = 1
           /\ ret.entry_signal[k] = 1
           /\ ret.position[k] = 1

====
